---- MODULE Spec2Model ----
(***************************************************************************)
(* Kea-GUI-Reservations: the Flask gateway (app.py) and the Kea control    *)
(* agent client (kea_client.py).                                           *)
(*                                                                         *)
(* Spec        two gunicorn workers serving POST /api/reservations and     *)
(*             POST /api/promote against one Kea backend, under            *)
(*             RESERVATION_LOCK.                                           *)
(* FairSpec    Spec with the polling loop of FileLock.acquire fair.        *)
(* SeqSpec     one worker serving create, promote and delete requests in   *)
(*             sequence, over every initial configuration.                 *)
(* DeleteSpec  two workers serving DELETE /api/reservation/<ip>, which     *)
(*             takes no lock.                                              *)
(* ClientSpec  KeaClient.create_reservation called directly, once, against *)
(*             a backend whose answers are inputs.                         *)
(* TransportSpec  KeaClient._send_command called once, over the responses  *)
(*             the HTTP exchange can hand it.                              *)
(* LeaseSpec   KeaClient.get_leases and _get_leases_by_subnet_paged called *)
(*             once, over the leases the backend holds and its answers.    *)
(* WalkSpec    the loop of _get_leases_by_subnet_paged, one iteration a    *)
(*             step, against a backend that answers with any page.         *)
(* AuthSpec    two workers serving login, logout, first-run setup, token   *)
(*             regeneration and requests behind check_auth.                *)
(* ConfigSpec  two workers serving POST /api/config, first-run setup and    *)
(*             token regeneration, over the config.yaml they start with.   *)
(* ImportSpec  two workers serving create, promote and                     *)
(*             POST /api/reservations/import under RESERVATION_LOCK.       *)
(***************************************************************************)
EXTENDS Integers, Sequences, FiniteSets, TLC

VARIABLES
    cfg,        \* Dhcp4.subnet4 of the backend: sequence of [id, reservations]
    lockHolder, \* worker process holding /tmp/kea_reservation.lock, or None
    pc,         \* position of each worker in its request handler
    req,        \* the request a worker is serving
    resp,       \* the HTTP response of the worker's request
    sent,       \* <<command, outcome>> pairs the worker's request has sent
    snap,       \* dhcp4_config held locally by a config rewrite in progress
    expired,    \* the worker has been blocked in FileLock.acquire for > timeout
    call,       \* the last direct KeaClient call and what it returned
    auth,       \* config.yaml's app section, and SESSIONS and AUTH_TOKEN per worker
    imp         \* the import a worker is running: its items and its counters

vars == <<cfg, lockHolder, pc, req, resp, sent, snap, expired, call, auth, imp>>

None == "None"

\* ------------------------------------------------------------------ bounds
MaxRes == 2         \* reservations per subnet in an initial configuration

PageLimit == 2      \* leases per lease4-get-page round trip (1000 in the code)
MaxLeases == 5      \* lease addresses of a subnet are 1..MaxLeases

MaxText == 3        \* words in the text of a backend response
MaxResult == 4      \* result codes of a backend response are 0..MaxResult

MaxSessions == 2    \* session tokens create_session makes in a behaviour
MaxRegenerated == 1 \* API tokens regenerate_api_token makes in a behaviour

MaxItems == 2       \* items of an uploaded array of reservations

\* --------------------------------------------------------------- constants
MinPasswordLength == 8

\* ------------------------------------------------------------ value sets
Workers == {"w1", "w2"}
IPs == {"192.168.1.50", "192.168.1.51"}
MACs == {"aa:01", "AA:01", "bb:02"}
SubnetIds == {"1", "2"}
SubnetArgs == SubnetIds \cup {None}
DnsInputs == {"", "8.8.8.8", "bad"}
Outcomes == {"ok", "unsupported", "error"}

\* str.lower() on the hardware addresses of the model
Lower(m) == IF m = "AA:01" THEN "aa:01" ELSE m

Reservation == [ip : IPs, mac : MACs]

\* ------------------------------------------------------- sequence helpers
RECURSIVE SeqsUpTo(_, _)
SeqsUpTo(S, n) ==
    IF n = 0 THEN {<<>>}
    ELSE LET shorter == SeqsUpTo(S, n - 1)
         IN  shorter \cup {Append(s, x) : s \in {t \in shorter : Len(t) = n - 1}, x \in S}

Range(s) == {s[i] : i \in 1..Len(s)}

\* no two entries of one subnet share an IP or (case-insensitively) a MAC
ConflictFree(rs) ==
    \A i, j \in 1..Len(rs) :
        i # j => /\ rs[i].ip # rs[j].ip
                 /\ Lower(rs[i].mac) # Lower(rs[j].mac)

\* reservation lists a subnet of a well-formed backend configuration can hold
SubnetLists == {rs \in SeqsUpTo(Reservation, MaxRes) : ConflictFree(rs)}

\* configurations with subnets 1 and 2, in that order
AllConfigs ==
    {<<[id |-> "1", reservations |-> a], [id |-> "2", reservations |-> b]>> :
        a \in SubnetLists, b \in {rs \in SubnetLists : Len(rs) <= 1}}

\* ---------------------------------------------------------- kea_client.py
RECURSIVE WithSubnet(_, _)
\* res_data of every reservation of one subnet, in order
WithSubnet(rs, id) ==
    IF rs = <<>> THEN <<>>
    ELSE <<[ip |-> Head(rs).ip, mac |-> Head(rs).mac, sid |-> id]>>
         \o WithSubnet(Tail(rs), id)

RECURSIVE ListReservations(_, _)
\* the loop of get_reservations over subnet4
ListReservations(config, sid) ==
    IF config = <<>> THEN <<>>
    ELSE IF sid # None /\ Head(config).id # sid
         THEN ListReservations(Tail(config), sid)
         ELSE WithSubnet(Head(config).reservations, Head(config).id)
              \o ListReservations(Tail(config), sid)

\* a listing that takes the reservations of every subnet, whatever the id
GetReservationsOfAll(config, sid, out) ==
    IF out = "ok" THEN ListReservations(config, None) ELSE <<>>

\* KeaClient.get_reservations: any failure of config-get gives the empty list
GetReservations(config, sid, out) ==
    IF out = "ok" THEN ListReservations(config, sid) ELSE <<>>

\* index of target_subnet in subnet4, 0 when the loop leaves it None: with a
\* subnet id the loop breaks at the first match, without one every subnet is
\* assigned in turn and the last one stays
TargetIndex(config, sid) ==
    IF sid = None THEN Len(config)
    ELSE IF \E i \in 1..Len(config) : config[i].id = sid
         THEN CHOOSE i \in 1..Len(config) :
                /\ config[i].id = sid
                /\ \A j \in 1..(i - 1) : config[j].id # sid
         ELSE 0

\* "Check if reservation already exists" in _create_reservation_via_config
AlreadyExists(rs, ip, mac) ==
    \E i \in 1..Len(rs) : rs[i].ip = ip \/ rs[i].mac = mac

\* dhcp4_config after target_subnet['reservations'].append(new_reservation)
AppendTo(config, t, ip, mac) ==
    [config EXCEPT ![t].reservations = Append(@, [ip |-> ip, mac |-> mac])]

\* what a KeaClient method hands back: the exception it raised ("none" when it
\* returned), the backend configuration it leaves, the commands it sent and
\* the value it returned
Returned(raised, config, cmds, value) ==
    [raised |-> raised, cfg |-> config, sent |-> cmds, ret |-> value]

\* KeaClient._create_reservation_via_config
CreateReservationViaConfig(config, ip, mac, sid, getOut, setOut) ==
    LET t    == TargetIndex(config, sid)
        get  == {<<"config-get", getOut>>}
        both == get \cup {<<"config-set", setOut>>}
    IN  IF getOut # "ok" THEN Returned(getOut, config, get, <<>>)
        ELSE IF t = 0 THEN Returned("subnet_not_found", config, get, <<>>)
        ELSE IF AlreadyExists(config[t].reservations, ip, mac)
             THEN Returned("already_exists", config, get, <<>>)
        ELSE IF setOut # "ok" THEN Returned(setOut, config, both, <<>>)
        ELSE Returned("none", AppendTo(config, t, ip, mac), both,
                      <<[ip |-> ip, mac |-> mac]>>)

\* the backend's reservation-add when it answers result 0: the reservation is
\* stored in the subnet named by subnet-id, whatever that subnet already holds
BackendReservationAdd(config, ip, mac, sid) ==
    LET t == TargetIndex(config, sid)
    IN  IF sid = None \/ t = 0 THEN config ELSE AppendTo(config, t, ip, mac)

\* answers the backend can give to reservation-add
ReservationAddOutcomes(config, sid) ==
    IF sid # None /\ TargetIndex(config, sid) # 0
    THEN Outcomes ELSE {"unsupported", "error"}

\* create_reservation with the config rewrite entered on every failure of
\* reservation-add
KeaCreateReservationAnyFailure(config, ip, mac, sid, addOut, getOut, setOut) ==
    LET add == {<<"reservation-add", addOut>>}
        via == CreateReservationViaConfig(config, ip, mac, sid, getOut, setOut)
    IN  IF addOut = "ok"
        THEN Returned("none", BackendReservationAdd(config, ip, mac, sid), add,
                      <<[ip |-> ip, mac |-> mac]>>)
        ELSE Returned(via.raised, via.cfg, add \cup via.sent, via.ret)

\* KeaClient.create_reservation
KeaCreateReservation(config, ip, mac, sid, addOut, getOut, setOut) ==
    LET add == {<<"reservation-add", addOut>>}
        via == CreateReservationViaConfig(config, ip, mac, sid, getOut, setOut)
    IN  CASE addOut = "ok" ->
               Returned("none", BackendReservationAdd(config, ip, mac, sid), add,
                        <<[ip |-> ip, mac |-> mac]>>)
          [] addOut = "unsupported" ->
               Returned(via.raised, via.cfg, add \cup via.sent, via.ret)
          [] OTHER -> Returned("error", config, add, <<>>)

RECURSIVE SelectOtherIp(_, _)
\* [r for r in subnet['reservations'] if r.get('ip-address') != ip_address]
SelectOtherIp(rs, ip) ==
    IF rs = <<>> THEN <<>>
    ELSE IF Head(rs).ip # ip THEN <<Head(rs)>> \o SelectOtherIp(Tail(rs), ip)
         ELSE SelectOtherIp(Tail(rs), ip)

\* a rewrite that filters every subnet, whatever subnet id is given
RemoveFromAllSubnets(config, ip, sid) ==
    [i \in 1..Len(config) |->
        [config[i] EXCEPT !.reservations = SelectOtherIp(@, ip)]]

RECURSIVE RemoveFromSubnets(_, _, _)
\* the loop of _delete_reservation_via_config over subnet4: subnets of another
\* id are skipped, and with a subnet id the loop stops at the first removal
RemoveFromSubnets(config, ip, sid) ==
    IF config = <<>> THEN <<>>
    ELSE LET s     == Head(config)
             kept  == SelectOtherIp(s.reservations, ip)
         IN  IF sid # None /\ s.id # sid
             THEN <<s>> \o RemoveFromSubnets(Tail(config), ip, sid)
             ELSE IF Len(kept) < Len(s.reservations) /\ sid # None
                  THEN <<[s EXCEPT !.reservations = kept]>> \o Tail(config)
                  ELSE <<[s EXCEPT !.reservations = kept]>>
                       \o RemoveFromSubnets(Tail(config), ip, sid)

\* a search for the IP that ignores the subnet id
ReservationFoundAnywhere(config, ip, sid) ==
    \E i \in 1..Len(config) :
        \E k \in 1..Len(config[i].reservations) : config[i].reservations[k].ip = ip

\* reservation_found at the end of that loop
ReservationFound(config, ip, sid) ==
    \E i \in 1..Len(config) :
        /\ sid = None \/ config[i].id = sid
        /\ \E k \in 1..Len(config[i].reservations) : config[i].reservations[k].ip = ip

\* answers the backend can give to reservation-del: result 0 needs the host
ReservationDelOutcomes(config, ip, sid) ==
    IF ReservationFound(config, ip, sid) THEN Outcomes ELSE {"unsupported", "error"}

\* the backend's reservation-del when it answers result 0
BackendReservationDel(config, ip, sid) ==
    RemoveFromSubnets(config, ip, sid)

\* ------------------------------------------ kea_client.py: _send_command
\* words of a response text; a text is a sequence of words
Words == {"not", "Not", "supported", "SUPPORTED", "command", "found", "failed"}
Texts == SeqsUpTo(Words, MaxText)

\* str.lower() on a word
LowerWord(x) ==
    CASE x = "Not" -> "not"
      [] x = "SUPPORTED" -> "supported"
      [] OTHER -> x

\* error_msg.lower()
LowerText(t) == [i \in 1..Len(t) |-> LowerWord(t[i])]

\* phrase in text
Contains(t, phrase) ==
    \E i \in 1..Len(t) :
        /\ i + Len(phrase) - 1 <= Len(t)
        /\ SubSeq(t, i, i + Len(phrase) - 1) = phrase

\* the same test without .lower()
IndicatesUnsupportedAsSent(msg) ==
    \/ Contains(msg, <<"not", "supported">>)
    \/ Contains(msg, <<"command", "not", "found">>)

\* 'not supported' in error_msg.lower() or 'command not found' in error_msg.lower()
IndicatesUnsupported(msg) ==
    \/ Contains(LowerText(msg), <<"not", "supported">>)
    \/ Contains(LowerText(msg), <<"command", "not", "found">>)

\* what the HTTP exchange gives _send_command: a failed exchange, a JSON
\* object, an empty JSON list, or a list whose first element may carry
\* "result" and "text"
BackendResponse(shape, hasResult, code, hasText, text) ==
    [shape |-> shape, hasResult |-> hasResult, result |-> code,
     hasText |-> hasText, text |-> text]
Envelopes ==
    {BackendResponse("envelope", hr, c, ht, t) :
        hr \in BOOLEAN, c \in 0..MaxResult, ht \in BOOLEAN, t \in Texts}
BackendResponses ==
    Envelopes \cup {BackendResponse(sh, FALSE, 0, FALSE, <<>>) :
                       sh \in {"http_error", "object", "empty_list"}}

\* result[0].get('result', 0) and result[0].get('text', 'Unknown error')
ResultCode(r) == IF r.hasResult THEN r.result ELSE 0
ErrorMsg(r) == IF r.hasText THEN r.text ELSE <<"Unknown", "error">>

\* what _send_command hands back: the exception it raised ("none" when it
\* returned), the text the exception carries, and the value returned
Sent(raised, msg, value) == [raised |-> raised, msg |-> msg, value |-> value]

\* the Unsupported outcome
Unsupported(r, raiseOnUnsupported) ==
    IF raiseOnUnsupported
    THEN Sent("CommandNotSupportedException", ErrorMsg(r), <<>>)
    ELSE Sent("none", <<>>, <<None>>)

\* KeaClient._send_command from the HTTP exchange on
SendCommand(r, raiseOnUnsupported) ==
    IF r.shape = "http_error" THEN Sent("Exception", <<>>, <<>>)
    ELSE IF r.shape = "envelope"
    THEN IF ResultCode(r) = 2 THEN Unsupported(r, raiseOnUnsupported)
         ELSE IF ResultCode(r) # 0
         THEN IF IndicatesUnsupported(ErrorMsg(r))
              THEN Unsupported(r, raiseOnUnsupported)
              ELSE Sent("Exception", ErrorMsg(r), <<>>)
         ELSE Sent("none", <<>>, <<r>>)
    ELSE Sent("none", <<>>, <<r>>)

\* ------------------------------------------- kea_client.py: listing leases
\* lease addresses, as integers above from_address = "0.0.0.0"
LeaseAddrs == 1..MaxLeases
StartAddress == 0

RECURSIVE Ascending(_)
\* the addresses of a set, lowest first
Ascending(S) ==
    IF S = {} THEN <<>>
    ELSE LET m == CHOOSE x \in S : \A y \in S : x <= y
         IN  <<m>> \o Ascending(S \ {m})

\* the backend's lease4-get-page: the leases of the subnet above "from", in
\* address order, "limit" of them at most
BackendLeasePage(leases, from, limit) ==
    LET above == Ascending({a \in leases : a > from})
    IN  SubSeq(above, 1, IF Len(above) < limit THEN Len(above) ELSE limit)

\* rounds at which a lease4-get-page of the walk can fail (0: none does), the
\* ways it can fail, and the ways the backend reports a page without leases
\* (result 0 with an empty list, or result 3, which _send_command raises)
FailRounds == 0..(MaxLeases \div PageLimit + 1)
FailKinds == {"unsupported", "error"}
EmptyAnswers == {"empty_list", "result_3"}

\* a cursor taken from the first lease of the page
NextFromFirst(page) == Head(page)

\* from_address = last_lease.get('ip-address')
NextFrom(page) == page[Len(page)]

\* what _get_leases_by_subnet_paged hands back: the exception it raised
\* ("none" when it returned), all_leases and the round trips it made
Walked(raised, leases, rounds) ==
    [raised |-> raised, leases |-> leases, rounds |-> rounds]

\* every exception of a round trip logged, ending the loop
PageFailureSwallowed(kind, all, round) == Walked("none", all, round)

\* the except clauses of the loop: CommandNotSupportedException is raised
\* again, any other exception is logged and ends the loop
PageFailure(kind, all, round) ==
    IF kind = "unsupported" THEN Walked("unsupported", <<>>, round)
    ELSE Walked("none", all, round)

RECURSIVE PagedWalk(_, _, _, _, _, _, _)
\* the "while True" loop of _get_leases_by_subnet_paged from one iteration on
PagedWalk(leases, from, all, rounds, failAt, failKind, emptyAs) ==
    LET round == rounds + 1
        page  == BackendLeasePage(leases, from, PageLimit)
        more  == all \o page
    IN  IF round = failAt
        THEN PageFailure(failKind, all, round)
        ELSE IF page = <<>> THEN Walked("none", all, round)
        ELSE IF Len(page) < PageLimit THEN Walked("none", more, round)
        ELSE IF NextFrom(page) = StartAddress THEN Walked("none", more, round)
        ELSE PagedWalk(leases, NextFrom(page), more, round, failAt, failKind,
                       emptyAs)

\* KeaClient._get_leases_by_subnet_paged
GetLeasesBySubnetPaged(leases, failAt, failKind, emptyAs) ==
    PagedWalk(leases, StartAddress, <<>>, 0, failAt, failKind, emptyAs)

\* the leases the backend holds: those of subnet 1 at the addresses of a set,
\* and at most one in subnet 2, above them
LeaseSets ==
    {[a \in SubnetIds |-> IF a = "1" THEN one ELSE two] :
        one \in SUBSET LeaseAddrs, two \in {{}, {MaxLeases + 1}}}

\* lease dictionaries of one subnet for a sequence of addresses
LeasesOf(addrs, id) == [i \in 1..Len(addrs) |-> [ip |-> addrs[i], sid |-> id]]

RECURSIVE AllLeases(_, _)
\* the backend's lease4-get-all: the leases of every subnet of the list
AllLeases(held, ids) ==
    IF ids = <<>> THEN <<>>
    ELSE LeasesOf(Ascending(held[Head(ids)]), Head(ids)) \o AllLeases(held, Tail(ids))

\* ids of get_subnets(), in configuration order
SubnetIdList(config) == [i \in 1..Len(config) |-> config[i].id]

RECURSIVE WalkSubnets(_, _, _, _, _)
\* "for sid in subnet_ids: all_leases.extend(_get_leases_by_subnet_paged(sid))"
WalkSubnets(held, ids, failAt, failKind, emptyAs) ==
    IF ids = <<>> THEN Walked("none", <<>>, 0)
    ELSE LET id   == Head(ids)
             here == IF id \in DOMAIN held
                     THEN GetLeasesBySubnetPaged(held[id], failAt, failKind, emptyAs)
                     ELSE GetLeasesBySubnetPaged({}, failAt, failKind, emptyAs)
             rest == WalkSubnets(held, Tail(ids), failAt, failKind, emptyAs)
         IN  IF here.raised # "none" THEN Walked(here.raised, <<>>, here.rounds)
             ELSE IF rest.raised # "none"
                  THEN Walked(rest.raised, <<>>, here.rounds + rest.rounds)
             ELSE Walked("none", LeasesOf(here.leases, id) \o rest.leases,
                         here.rounds + rest.rounds)

RECURSIVE SelectSubnet(_, _)
\* [l for l in all_leases if l.get('subnet-id') == subnet_id]
SelectSubnet(ls, sid) ==
    IF ls = <<>> THEN <<>>
    ELSE IF Head(ls).sid = sid THEN <<Head(ls)>> \o SelectSubnet(Tail(ls), sid)
         ELSE SelectSubnet(Tail(ls), sid)

\* lease-database types a backend can be configured with
DbTypes == {"memfile", "mysql"}

\* the exception of get_leases when no lease command is available: it names
\* the lease_cmds hook, and the backend type when dbType is <<type>>
CapabilityError(dbType) == [kind |-> "CapabilityError", hook |-> "lease_cmds", type |-> dbType]
NoError == [kind |-> "none", hook |-> "", type |-> <<>>]
CommandError == [kind |-> "Exception", hook |-> "", type |-> <<>>]

\* "except Exception as db_error" around the lookup and the raise that
\* follows it: whatever the try block raised is replaced by the generic error
ExceptDbError(e) == CapabilityError(<<>>)

\* the last fallback of get_leases: _get_lease_database_info, then the error
TierThree(dbOut, dbType) ==
    LET tried == IF dbOut = "ok" THEN CapabilityError(<<dbType>>) ELSE CommandError
    IN  ExceptDbError(tried)

\* what get_leases hands back: the exception it raised, the leases returned,
\* whether the paging tier ran and raised, and the commands it sent
Leased(raised, leases, paging, cmds) ==
    [raised |-> raised, leases |-> leases, paging |-> paging, cmds |-> cmds]

\* the commands of the fallback of get_leases: config-get of get_subnets, the
\* lease4-get-page round trips when there is a subnet to walk, and config-get
\* of _get_lease_database_info when the paging tier raised
FallbackCommands(ids, subnetsOut) ==
    {"lease4-get-all", "config-get"}
        \cup (IF subnetsOut = "ok" /\ ids # <<>> THEN {"lease4-get-page"} ELSE {})

\* get_leases with the fallback entered on every failure of lease4-get-all
GetLeasesFallbackOnError(config, held, sid, allOut, subnetsOut, failAt, failKind, emptyAs, dbOut, dbType) ==
    LET ids    == IF sid # None THEN <<sid>> ELSE SubnetIdList(config)
        walk   == WalkSubnets(held, ids, failAt, failKind, emptyAs)
        select(ls) == IF sid # None THEN SelectSubnet(ls, sid) ELSE ls
    IN  CASE allOut = "ok" ->
               Leased(NoError, select(AllLeases(held, SubnetIdList(config))), "not_run",
                      {"lease4-get-all"})
          [] OTHER ->
               IF subnetsOut # "ok" \/ walk.raised # "none"
               THEN Leased(TierThree(dbOut, dbType), <<>>, "raised",
                           FallbackCommands(ids, subnetsOut))
               ELSE Leased(NoError, select(walk.leases), "returned",
                           FallbackCommands(ids, subnetsOut))

\* KeaClient.get_leases
GetLeases(config, held, sid, allOut, subnetsOut, failAt, failKind, emptyAs, dbOut, dbType) ==
    LET ids    == IF sid # None THEN <<sid>> ELSE SubnetIdList(config)
        walk   == WalkSubnets(held, ids, failAt, failKind, emptyAs)
        select(ls) == IF sid # None THEN SelectSubnet(ls, sid) ELSE ls
    IN  CASE allOut = "ok" ->
               Leased(NoError, select(AllLeases(held, SubnetIdList(config))), "not_run",
                      {"lease4-get-all"})
          [] allOut = "error" -> Leased(CommandError, <<>>, "not_run", {"lease4-get-all"})
          [] OTHER ->
               IF subnetsOut # "ok" \/ walk.raised # "none"
               THEN Leased(TierThree(dbOut, dbType), <<>>, "raised",
                           FallbackCommands(ids, subnetsOut))
               ELSE Leased(NoError, select(walk.leases), "returned",
                           FallbackCommands(ids, subnetsOut))

\* ------------------------------------------------ deleting leases by MAC
\* the leases the backend holds, as the MAC of each leased IP
MacLeases == UNION {[S -> MACs] : S \in SUBSET IPs}

\* the IPs whose lease has the given MAC, compared without regard to case
MatchingIps(held, mac) == {ip \in DOMAIN held : Lower(held[ip]) = Lower(mac)}

\* KeaClient.delete_leases_by_mac: the leases are listed, one delete is
\* issued per matching IP, a failed delete is skipped, and the number of
\* successful deletes is returned; a failed listing raises
KeaDeleteLeasesByMac(held, mac, listOut, failing) ==
    IF listOut # "ok"
    THEN [raised |-> "error", count |-> 0, deletes |-> {}]
    ELSE [raised |-> "none",
          count |-> Cardinality(MatchingIps(held, mac) \ failing),
          deletes |-> MatchingIps(held, mac)]

\* ----------------------------------------------------------------- app.py
\* validate_dns_servers: is_valid for the DNS strings of the model
ValidDns(d) == d # "bad"

\* keyword arguments of the three client.create_reservation(...) calls
CallKeywords == {"ip_address", "hw_address", "hostname", "subnet_id", "option_data"}

\* the parameters, had the method declared option_data as its callers expect
ParamsWithOptionData ==
    {"ip_address", "hw_address", "hostname", "subnet_id", "option_data"}

\* parameters KeaClient.create_reservation declares
CreateReservationParams == {"ip_address", "hw_address", "hostname", "subnet_id"}

\* client.create_reservation(..., option_data=option_data): a keyword the
\* method does not declare raises TypeError before its body runs
CallCreateReservation(config, ip, mac, sid, addOut, getOut, setOut) ==
    IF CallKeywords \subseteq CreateReservationParams
    THEN KeaCreateReservation(config, ip, mac, sid, addOut, getOut, setOut)
    ELSE Returned("TypeError", config, {}, <<>>)

\* next((r for r in reservations if r.get('ip-address') == ip_address), None),
\* as an index, 0 for None
FirstByIp(rs, ip) ==
    IF \E i \in 1..Len(rs) : rs[i].ip = ip
    THEN CHOOSE i \in 1..Len(rs) :
            rs[i].ip = ip /\ \A j \in 1..(i - 1) : rs[j].ip # ip
    ELSE 0

\* next((r for r in reservations if r.get('hw-address', '').lower() ==
\* hw_address_lower), None), as an index
FirstByMac(rs, mac) ==
    IF \E i \in 1..Len(rs) : Lower(rs[i].mac) = Lower(mac)
    THEN CHOOSE i \in 1..Len(rs) :
            /\ Lower(rs[i].mac) = Lower(mac)
            /\ \A j \in 1..(i - 1) : Lower(rs[j].mac) # Lower(mac)
    ELSE 0

Response(status, kind, res) == [status |-> status, kind |-> kind, res |-> res]
NoResponse == Response(0, "none", <<>>)
Proceed == Response(0, "proceed", <<>>)

\* the conflict check without its same-MAC branch
ConflictCheckNoIdempotence(rs, ip, mac, force) ==
    LET i == FirstByIp(rs, ip)
        m == FirstByMac(rs, mac)
    IN  IF i # 0 /\ ~force
        THEN Response(409, "ip_conflict", <<rs[i]>>)
        ELSE IF m # 0 /\ rs[m].ip # ip /\ ~force
        THEN Response(409, "mac_conflict", <<rs[m]>>)
        ELSE Proceed

\* the conflict check with "if not force" dropped from the IP branch
ConflictCheckAlwaysForced(rs, ip, mac, force) ==
    LET i == FirstByIp(rs, ip)
        m == FirstByMac(rs, mac)
    IN  IF i # 0 /\ Lower(rs[i].mac) = Lower(mac)
        THEN Response(200, "exists", <<rs[i]>>)
        ELSE IF m # 0 /\ rs[m].ip # ip /\ ~force
        THEN Response(409, "mac_conflict", <<rs[m]>>)
        ELSE Proceed

\* a conflict check that looks at the requested IP only
ConflictCheckIpOnly(rs, ip, mac, force) ==
    LET i == FirstByIp(rs, ip)
    IN  IF i # 0 /\ Lower(rs[i].mac) = Lower(mac)
        THEN Response(200, "exists", <<rs[i]>>)
        ELSE IF i # 0 /\ ~force
        THEN Response(409, "ip_conflict", <<rs[i]>>)
        ELSE Proceed

\* a conflict check that compares hardware addresses letter for letter
ConflictCheckCaseSensitive(rs, ip, mac, force) ==
    LET i == FirstByIp(rs, ip)
        m == IF \E k \in 1..Len(rs) : rs[k].mac = mac
             THEN CHOOSE k \in 1..Len(rs) :
                    rs[k].mac = mac /\ \A j \in 1..(k - 1) : rs[j].mac # mac
             ELSE 0
    IN  IF i # 0 /\ rs[i].mac = mac
        THEN Response(200, "exists", <<rs[i]>>)
        ELSE IF i # 0 /\ ~force
        THEN Response(409, "ip_conflict", <<rs[i]>>)
        ELSE IF m # 0 /\ rs[m].ip # ip /\ ~force
        THEN Response(409, "mac_conflict", <<rs[m]>>)
        ELSE Proceed

\* the conflict check of create_reservation on the fetched list: the response
\* it returns, or Proceed
ConflictCheck(rs, ip, mac, force) ==
    LET i == FirstByIp(rs, ip)
        m == FirstByMac(rs, mac)
    IN  IF i # 0 /\ Lower(rs[i].mac) = Lower(mac)
        THEN Response(200, "exists", <<rs[i]>>)
        ELSE IF i # 0 /\ ~force
        THEN Response(409, "ip_conflict", <<rs[i]>>)
        ELSE IF m # 0 /\ rs[m].ip # ip /\ ~force
        THEN Response(409, "mac_conflict", <<rs[m]>>)
        ELSE Proceed

\* a duplicate check that looks at the first listed reservation only
PromoteCheckFirstOnly(rs, ip) ==
    IF rs # <<>> /\ rs[1].ip = ip THEN Response(400, "promote_exists", <<>>)
    ELSE Proceed

\* the duplicate check of promote_lease on the fetched list
PromoteCheck(rs, ip) ==
    IF FirstByIp(rs, ip) # 0 THEN Response(400, "promote_exists", <<>>)
    ELSE Proceed

\* a request body; ipFree and macFree are not part of it: Start records there
\* whether any reservation held the requested IP, or the requested MAC, when
\* the request arrived
Request(kind, ip, mac, force, sid, dns) ==
    [kind |-> kind, ip |-> ip, mac |-> mac, force |-> force, sid |-> sid,
     dns |-> dns, ipFree |-> FALSE, macFree |-> FALSE]
NoRequest == Request("none", "", "", FALSE, None, "")

CreateRequests ==
    {Request("create", ip, mac, f, sid, d) :
        ip \in IPs, mac \in MACs, f \in BOOLEAN, sid \in SubnetArgs, d \in DnsInputs}
PromoteRequests ==
    {Request("promote", ip, mac, FALSE, sid, d) :
        ip \in IPs, mac \in MACs, sid \in SubnetArgs, d \in DnsInputs}
DeleteRequests ==
    {Request("delete", ip, "", FALSE, sid, "") : ip \in IPs, sid \in SubnetArgs}

\* a worker leaves its handler with response r
Return(w, r) ==
    /\ pc' = [pc EXCEPT ![w] = "done"]
    /\ resp' = [resp EXCEPT ![w] = r]

\* a return that leaves the lock file locked
KeepLock(w) == lockHolder' = lockHolder

\* leaving the "with RESERVATION_LOCK" block, on a return or an exception
ReleaseLock(w) == lockHolder' = None

\* the next request reaches an idle worker; the handler reads the request body
Start(w, r) ==
    /\ pc[w] = "idle"
    /\ req' = [req EXCEPT ![w] =
                  [r EXCEPT
                      !.ipFree = FirstByIp(ListReservations(cfg, None), r.ip) = 0,
                      !.macFree = FirstByMac(ListReservations(cfg, None), r.mac) = 0]]
    /\ sent' = [sent EXCEPT ![w] = {}]
    /\ resp' = [resp EXCEPT ![w] = NoResponse]
    /\ pc' = [pc EXCEPT ![w] =
                IF r.kind = "delete" THEN "del"
                ELSE IF r.kind = "promote" /\ ~ValidDns(r.dns) THEN "bad_dns"
                ELSE "waiting"]
    /\ expired' = [expired EXCEPT ![w] = FALSE]
    /\ UNCHANGED <<cfg, lockHolder, snap, call, auth, imp>>

\* promote_lease validates the DNS servers before it takes the lock
PromoteBadDns(w) ==
    /\ pc[w] = "bad_dns"
    /\ Return(w, Response(400, "invalid_dns", <<>>))
    /\ UNCHANGED <<cfg, lockHolder, req, sent, snap, expired, call, auth, imp>>

\* a lock that is handed to whoever asks for it
AcquireLockUnguarded(w) ==
    /\ pc[w] = "waiting"
    /\ lockHolder' = w
    /\ pc' = [pc EXCEPT ![w] = "locked"]
    /\ expired' = [expired EXCEPT ![w] = FALSE]
    /\ UNCHANGED <<cfg, req, resp, sent, snap, call, auth, imp>>

\* FileLock.acquire succeeds: no process holds the lock file
AcquireLock(w) ==
    /\ pc[w] = "waiting"
    /\ lockHolder = None
    /\ lockHolder' = w
    /\ pc' = [pc EXCEPT ![w] = "locked"]
    /\ expired' = [expired EXCEPT ![w] = FALSE]
    /\ UNCHANGED <<cfg, req, resp, sent, snap, call, auth, imp>>

\* the timeout of the lock (15 s) passes while the worker polls for it
TimeoutPasses(w) ==
    /\ pc[w] = "waiting"
    /\ ~expired[w]
    /\ expired' = [expired EXCEPT ![w] = TRUE]
    /\ UNCHANGED <<cfg, lockHolder, pc, req, resp, sent, snap, call, auth, imp>>

\* the Timeout of FileLock.acquire without its "except FileLockTimeout": it
\* lands in "except Exception" and the answer is 500
LockTimeoutUncaught(w) ==
    /\ pc[w] = "waiting"
    /\ expired[w]
    /\ lockHolder # None
    /\ Return(w, Response(500, "Timeout", <<>>))
    /\ UNCHANGED <<cfg, lockHolder, req, sent, snap, expired, call, auth, imp>>

\* FileLock.acquire finds the lock held after the timeout and raises Timeout;
\* "except FileLockTimeout" answers 503
LockTimeout(w) ==
    /\ pc[w] = "waiting"
    /\ expired[w]
    /\ lockHolder # None
    /\ Return(w, Response(503, "busy_retry", <<>>))
    /\ UNCHANGED <<cfg, lockHolder, req, sent, snap, expired, call, auth, imp>>

\* the checks made on an empty list kept from before the lock was taken,
\* whatever config-get answers
CheckExistingCached(w) ==
    /\ pc[w] = "locked"
    /\ \E out \in Outcomes :
        LET r  == IF req[w].kind = "create"
                  THEN ConflictCheck(<<>>, req[w].ip, req[w].mac, req[w].force)
                  ELSE PromoteCheck(<<>>, req[w].ip)
        IN  /\ sent' = [sent EXCEPT ![w] = @ \cup {<<"config-get", out>>}]
            /\ IF r = Proceed
               THEN /\ pc' = [pc EXCEPT ![w] = "checked"]
                    /\ UNCHANGED <<resp, lockHolder>>
               ELSE Return(w, r) /\ ReleaseLock(w)
    /\ UNCHANGED <<cfg, req, snap, expired, call, auth, imp>>

\* under the lock: get_reservations, then the conflict check of
\* create_reservation or the duplicate check of promote_lease
CheckExisting(w) ==
    /\ pc[w] = "locked"
    /\ \E out \in Outcomes :
        LET rs == GetReservations(cfg, req[w].sid, out)
            r  == IF req[w].kind = "create"
                  THEN ConflictCheck(rs, req[w].ip, req[w].mac, req[w].force)
                  ELSE PromoteCheck(rs, req[w].ip)
        IN  /\ sent' = [sent EXCEPT ![w] = @ \cup {<<"config-get", out>>}]
            /\ IF r = Proceed
               THEN /\ pc' = [pc EXCEPT ![w] = "checked"]
                    /\ UNCHANGED <<resp, lockHolder>>
               ELSE Return(w, r) /\ ReleaseLock(w)
    /\ UNCHANGED <<cfg, req, snap, expired, call, auth, imp>>

\* still under the lock: create_reservation validates the DNS servers, then
\* both handlers call client.create_reservation and answer 200, or the
\* exception reaches "except Exception" and the answer is 500
CreateCall(w) ==
    /\ pc[w] = "checked"
    /\ IF req[w].kind = "create" /\ ~ValidDns(req[w].dns)
       THEN /\ Return(w, Response(400, "invalid_dns", <<>>))
            /\ UNCHANGED <<cfg, sent>>
       ELSE \E addOut \in ReservationAddOutcomes(cfg, req[w].sid),
               getOut \in Outcomes, setOut \in Outcomes :
              /\ addOut # "unsupported" => getOut = "ok"
              /\ getOut # "ok" \/ addOut # "unsupported" => setOut = "ok"
              /\ LET r == CallCreateReservation(cfg, req[w].ip, req[w].mac,
                                                req[w].sid, addOut, getOut, setOut)
                 IN  /\ cfg' = r.cfg
                     /\ sent' = [sent EXCEPT ![w] = @ \cup r.sent]
                     /\ IF r.raised = "none"
                        THEN Return(w, Response(200, "created", r.ret))
                        ELSE Return(w, Response(500, r.raised, <<>>))
    /\ ReleaseLock(w)
    /\ UNCHANGED <<req, snap, expired, call, auth, imp>>

\* delete_reservation (the route takes no lock): KeaClient.delete_reservation
\* sends reservation-del; result 0 answers 200, Unsupported goes on to the
\* config rewrite, any other failure answers 500
DeleteNative(w) ==
    /\ pc[w] = "del"
    /\ \E out \in ReservationDelOutcomes(cfg, req[w].ip, req[w].sid) :
        /\ sent' = [sent EXCEPT ![w] = @ \cup {<<"reservation-del", out>>}]
        /\ CASE out = "ok" ->
                  /\ cfg' = BackendReservationDel(cfg, req[w].ip, req[w].sid)
                  /\ Return(w, Response(200, "deleted", <<>>))
             [] out = "unsupported" ->
                  /\ pc' = [pc EXCEPT ![w] = "del_get"]
                  /\ UNCHANGED <<cfg, resp>>
             [] OTHER ->
                  /\ Return(w, Response(500, "error", <<>>))
                  /\ UNCHANGED cfg
    /\ UNCHANGED <<lockHolder, req, snap, expired, call, auth, imp>>

\* _delete_reservation_via_config up to config-set: config-get, then the
\* reservation is filtered out of the local copy, or "not found" is raised
DeleteConfigGet(w) ==
    /\ pc[w] = "del_get"
    /\ \E out \in Outcomes :
        /\ sent' = [sent EXCEPT ![w] = @ \cup {<<"config-get", out>>}]
        /\ IF out # "ok"
           THEN Return(w, Response(500, out, <<>>)) /\ UNCHANGED snap
           ELSE IF ~ReservationFound(cfg, req[w].ip, req[w].sid)
           THEN Return(w, Response(500, "not_found", <<>>)) /\ UNCHANGED snap
           ELSE /\ snap' = [snap EXCEPT ![w] =
                              RemoveFromSubnets(cfg, req[w].ip, req[w].sid)]
                /\ pc' = [pc EXCEPT ![w] = "del_set"]
                /\ UNCHANGED resp
    /\ UNCHANGED <<cfg, lockHolder, req, expired, call, auth, imp>>

\* _delete_reservation_via_config: config-set writes the local copy back
DeleteConfigSet(w) ==
    /\ pc[w] = "del_set"
    /\ \E out \in Outcomes :
        /\ sent' = [sent EXCEPT ![w] = @ \cup {<<"config-set", out>>}]
        /\ IF out = "ok"
           THEN cfg' = snap[w] /\ Return(w, Response(200, "deleted", <<>>))
           ELSE UNCHANGED cfg /\ Return(w, Response(500, out, <<>>))
    /\ snap' = [snap EXCEPT ![w] = <<>>]
    /\ UNCHANGED <<lockHolder, req, expired, call, auth, imp>>

\* a route that answers 200 whatever the client call did
DeleteLeasesByMacAlways200(r) ==
    [status |-> 200, deleted |-> 0, deletes |-> r.deletes]

\* the route delete_leases_by_mac around the client call r: 200 with the
\* count, or 500 when the call raised
DeleteLeasesByMacResponse(r) ==
    IF r.raised = "none"
    THEN [status |-> 200, deleted |-> r.count, deletes |-> r.deletes]
    ELSE [status |-> 500, deleted |-> 0, deletes |-> r.deletes]

\* a direct call of KeaClient.create_reservation: its arguments, the answers
\* the backend gives, the configuration before it, and what it hands back
Call(op, ip, mac, sid, addOut, getOut, setOut, before, r) ==
    [op |-> op, ip |-> ip, mac |-> mac, sid |-> sid, addOut |-> addOut,
     getOut |-> getOut, setOut |-> setOut, before |-> before, raised |-> r.raised,
     ret |-> r.ret, sent |-> r.sent]
NoCall == Call("none", "", "", None, "ok", "ok", "ok", <<>>, Returned("none", <<>>, {}, <<>>))

\* ------------------------------------------------------------ app.py: auth
\* a client's password, and len(password)
Passwords == {"", "short", "first-password", "other-password"}
PasswordLength(p) ==
    CASE p = "" -> 0
      [] p = "short" -> 5
      [] OTHER -> 14

\* hash_password, with the random salt left out: verify_password recomputes
\* the key with the salt it finds in the stored hash
NoHash == <<>>
HashPassword(p) == <<"pbkdf2", "sha256", p>>
VerifyPassword(p, h) == h = HashPassword(p)

\* a token: kind "sess" for 'sess_' + secrets.token_hex(32), the n-th one
\* create_session makes; kind "api" for secrets.token_hex(32), the one worker
\* w generates in memory at startup or the n-th one regenerate_api_token makes
Token(kind, n, w) == [kind |-> kind, n |-> n, w |-> w]
NoToken == Token("none", 0, "")
Junk == Token("junk", 0, "")
SessionToken(n) == Token("sess", n, "")
SessionTokens == {SessionToken(n) : n \in 1..MaxSessions}
StartupToken(w) == Token("api", 0, w)
RegeneratedToken(n) == Token("api", n, "")
ApiTokens ==
    {StartupToken(w) : w \in Workers} \cup {RegeneratedToken(n) : n \in 1..MaxRegenerated}

\* the Authorization header of a request: absent, or a scheme and a token
Header(scheme, token) == [scheme |-> scheme, token |-> token]
NoHeader == Header("", NoToken)
Headers ==
    {NoHeader, Header("Basic", Junk)}
        \cup {Header("Bearer", t) : t \in SessionTokens \cup ApiTokens \cup {Junk}}

\* open_paths of check_auth
OpenPaths ==
    {"/", "/api/login", "/api/logout", "/api/first-run", "/api/setup", "/apidocs",
     "/apispec.json"}

\* request.path.startswith('/flasgger_static'), over the paths of Paths
StartsWithFlasggerStatic(path) == path = "/flasgger_static/swagger-ui.css"

\* paths of the requests Handle serves: two open ones and one other
Paths == {"/", "/flasgger_static/swagger-ui.css", "/api/leases"}

\* request.path in open_paths or request.path.startswith('/flasgger_static')
IsOpen(path) == path \in OpenPaths \/ StartsWithFlasggerStatic(path)

\* is_valid_session in worker w: the token is in SESSIONS and its expiry has
\* not passed
IsValidSession(a, w, token) == token \in a.SESSIONS[w] /\ token \notin a.late

\* load_config().get('app', {}).get('api_token') or AUTH_TOKEN
CurrentApiToken(a, w) == IF a.api_token # NoToken THEN a.api_token ELSE a.AUTH_TOKEN[w]

\* check_auth in worker w: TRUE when it returns None and the handler runs
CheckAuth(a, w, path, h) ==
    \/ IsOpen(path)
    \/ /\ h.scheme = "Bearer"
       /\ IsValidSession(a, w, h.token) \/ h.token = CurrentApiToken(a, w)

\* SESSIONS of worker w after check_auth: is_valid_session pops a token whose
\* expiry has passed
AfterCheckAuth(a, w, path, h) ==
    IF ~IsOpen(path) /\ h.scheme = "Bearer" /\ h.token \in a.late
    THEN [a EXCEPT !.SESSIONS[w] = @ \ {h.token}]
    ELSE a

\* create_session in worker w; issued counts the tokens made so far
CreateSession(a, w) ==
    [a EXCEPT !.SESSIONS[w] = @ \cup {SessionToken(a.issued + 1)},
              !.issued = @ + 1]

\* the last request answered: the worker, the route, the Authorization header,
\* the status, and whether the route's handler ran
Answer(op, w, path, h, status, ran) ==
    [op |-> op, w |-> w, path |-> path, header |-> h, status |-> status, ran |-> ran]
NoAnswer == Answer("none", "", "", NoHeader, 0, FALSE)

\* a fresh installation: config.yaml has neither password_hash nor api_token
\* nor the auth_token of older versions,
\* each worker has generated its AUTH_TOKEN, SESSIONS is empty; revoked holds
\* the session tokens a logout request was answered for, setups counts the
\* setup requests that stored a password, pending is the password of a setup
\* request between its check and its write
NoAuth ==
    [password_hash |-> NoHash, api_token |-> NoToken, auth_token |-> NoToken,
     AUTH_TOKEN |-> [w \in Workers |-> StartupToken(w)],
     SESSIONS |-> [w \in Workers |-> {}],
     issued |-> 0, late |-> {}, revoked |-> {}, regenerated |-> 0,
     pending |-> [w \in Workers |-> ""], setups |-> 0, last |-> NoAnswer]

\* POST /api/login in worker w
Login(w, p) ==
    /\ auth.pending[w] = ""
    /\ auth.issued < MaxSessions
    /\ LET status == IF p = "" THEN 400
                     ELSE IF auth.password_hash = NoHash THEN 403
                     ELSE IF ~VerifyPassword(p, auth.password_hash) THEN 401
                     ELSE 200
           a == IF status = 200 THEN CreateSession(auth, w) ELSE auth
       IN  auth' = [a EXCEPT !.last = Answer("login", w, "/api/login", NoHeader,
                                             status, TRUE)]
    /\ UNCHANGED <<cfg, lockHolder, pc, req, resp, sent, snap, expired, call, imp>>

\* POST /api/logout in worker w: revoke_session pops the token from the
\* SESSIONS of this worker; the answer is 200 in every case
Logout(w, h) ==
    /\ auth.pending[w] = ""
    /\ LET a == IF h.scheme = "Bearer"
                THEN [auth EXCEPT !.SESSIONS[w] = @ \ {h.token},
                                  !.revoked = @ \cup ({h.token} \cap SessionTokens)]
                ELSE auth
       IN  auth' = [a EXCEPT !.last = Answer("logout", w, "/api/logout", h, 200, TRUE)]
    /\ UNCHANGED <<cfg, lockHolder, pc, req, resp, sent, snap, expired, call, imp>>

\* time.time() passes the expiry of the oldest session token still in time
SessionExpires ==
    /\ \E n \in 1..auth.issued :
        /\ SessionToken(n) \notin auth.late
        /\ \A m \in 1..(n - 1) : SessionToken(m) \in auth.late
        /\ auth' = [auth EXCEPT !.late = @ \cup {SessionToken(n)}]
    /\ UNCHANGED <<cfg, lockHolder, pc, req, resp, sent, snap, expired, call, imp>>

\* a request for path reaches worker w: check_auth, then the route's handler
\* or 401
Handle(w, path, h) ==
    /\ auth.pending[w] = ""
    /\ LET ran == CheckAuth(auth, w, path, h)
           a == AfterCheckAuth(auth, w, path, h)
       IN  auth' = [a EXCEPT !.last = Answer("handle", w, path, h,
                                             IF ran THEN 200 ELSE 401, ran)]
    /\ UNCHANGED <<cfg, lockHolder, pc, req, resp, sent, snap, expired, call, imp>>

\* POST /api/auth/token/regenerate in worker w, behind check_auth
RegenerateApiToken(w, h) ==
    /\ auth.pending[w] = ""
    /\ auth.regenerated < MaxRegenerated
    /\ LET path == "/api/auth/token/regenerate"
           ran == CheckAuth(auth, w, path, h)
           a == AfterCheckAuth(auth, w, path, h)
           t == RegeneratedToken(auth.regenerated + 1)
       IN  auth' = IF ran
                   THEN [a EXCEPT !.api_token = t, !.AUTH_TOKEN[w] = t,
                                  !.auth_token = NoToken,
                                  !.regenerated = @ + 1,
                                  !.last = Answer("regenerate", w, path, h, 200, TRUE)]
                   ELSE [a EXCEPT !.last = Answer("regenerate", w, path, h, 401, FALSE)]
    /\ UNCHANGED <<cfg, lockHolder, pc, req, resp, sent, snap, expired, call, imp>>

\* POST /api/setup in worker w, up to the write: config.yaml is read, 403 when
\* it has a password_hash, 400 when the password is shorter than 8 characters
SetupCheck(w, p) ==
    /\ auth.pending[w] = ""
    /\ auth' =
         IF auth.password_hash # NoHash
         THEN [auth EXCEPT !.last = Answer("setup", w, "/api/setup", NoHeader, 403, TRUE)]
         ELSE IF PasswordLength(p) < MinPasswordLength
         THEN [auth EXCEPT !.last = Answer("setup", w, "/api/setup", NoHeader, 400, TRUE)]
         ELSE [auth EXCEPT !.pending[w] = p]
    /\ UNCHANGED <<cfg, lockHolder, pc, req, resp, sent, snap, expired, call, imp>>

\* POST /api/setup, the rest: load_config, password_hash and api_token are set
\* in it and config.yaml is written, with no lock held since the read; then
\* AUTH_TOKEN is set and a session made. A failed write answers 500
SetupWrite(w, written) ==
    /\ auth.pending[w] # ""
    /\ auth.issued < MaxSessions
    /\ auth' =
         IF ~written
         THEN [auth EXCEPT !.pending[w] = "",
                           !.last = Answer("setup", w, "/api/setup", NoHeader, 500, TRUE)]
         ELSE LET t == IF auth.api_token = NoToken /\ auth.auth_token # NoToken
                       THEN auth.auth_token
                       ELSE CurrentApiToken(auth, w)
                  a == [auth EXCEPT !.password_hash = HashPassword(auth.pending[w]),
                                    !.api_token = t, !.AUTH_TOKEN[w] = t,
                                    !.auth_token = NoToken,
                                    !.setups = @ + 1, !.pending[w] = ""]
              IN  [CreateSession(a, w) EXCEPT
                      !.last = Answer("setup", w, "/api/setup", NoHeader, 200, TRUE)]
    /\ UNCHANGED <<cfg, lockHolder, pc, req, resp, sent, snap, expired, call, imp>>

\* ------------------------------------------------- app.py: save_config
\* the credential fields of an 'app' section, of config.yaml or of a request
\* body: NoHash and NoToken stand for a key that is absent or empty
AppSection(password_hash, api_token, auth_token) ==
    [password_hash |-> password_hash, api_token |-> api_token,
     auth_token |-> auth_token]
NoApp == AppSection(NoHash, NoToken, NoToken)

\* the 'app' sections a client posts
AppSections ==
    {NoApp, AppSection(HashPassword("other-password"), Junk, Junk)}

\* the token of an installation made by a version that had auth_token only
LegacyToken == Token("legacy", 0, "")

\* load_or_init_auth in worker w: AUTH_TOKEN from the api_token of the file,
\* else from its auth_token, else generated in memory
LoadOrInitAuth(app, w) ==
    IF app.api_token # NoToken THEN app.api_token
    ELSE IF app.auth_token # NoToken THEN app.auth_token
    ELSE StartupToken(w)

\* load_config().get('app', {}) as save_config reads it
ExistingApp(a) == AppSection(a.password_hash, a.api_token, a.auth_token)

\* the 'app' section save_config writes: api_token from the file read, or
\* AUTH_TOKEN; password_hash from the file read when it has one, otherwise
\* what the request carries; auth_token popped
SaveConfigApp(existing_app, new_app, AUTH_TOKEN) ==
    AppSection(IF existing_app.password_hash # NoHash
               THEN existing_app.password_hash
               ELSE new_app.password_hash,
               IF existing_app.api_token # NoToken
               THEN existing_app.api_token
               ELSE AUTH_TOKEN,
               NoToken)

\* a save_config request in a worker: where it is, its Authorization header,
\* the 'app' section it carries and the one it has read
Save(at, header, new_app, existing_app) ==
    [at |-> at, header |-> header, new_app |-> new_app,
     existing_app |-> existing_app]
NoSave == Save("idle", NoHeader, NoApp, NoApp)

\* POST /api/config in worker w, behind check_auth, up to the write: the
\* body is validated and load_config read
SaveConfigRead(w, h, app) ==
    /\ call[w].at = "idle"
    /\ auth.pending[w] = ""
    /\ LET path == "/api/config"
           ran == CheckAuth(auth, w, path, h)
           a == AfterCheckAuth(auth, w, path, h)
       IN  IF ran
           THEN /\ auth' = a
                /\ call' = [call EXCEPT ![w] = Save("read", h, app, ExistingApp(a))]
           ELSE /\ auth' = [a EXCEPT !.last = Answer("save_config", w, path, h,
                                                     401, FALSE)]
                /\ UNCHANGED call
    /\ UNCHANGED <<cfg, lockHolder, pc, req, resp, sent, snap, expired, imp>>

\* POST /api/config, the rest: the credentials are set in the posted
\* configuration and config.yaml is written with it, with no lock held since
\* the read. A failed write answers 500
SaveConfigWrite(w, written) ==
    /\ call[w].at = "read"
    /\ LET path == "/api/config"
           n == SaveConfigApp(call[w].existing_app, call[w].new_app,
                              auth.AUTH_TOKEN[w])
       IN  auth' =
             IF written
             THEN [auth EXCEPT !.password_hash = n.password_hash,
                               !.api_token = n.api_token,
                               !.auth_token = n.auth_token,
                               !.last = Answer("save_config", w, path,
                                               call[w].header, 200, TRUE)]
             ELSE [auth EXCEPT !.last = Answer("save_config", w, path,
                                               call[w].header, 500, TRUE)]
    /\ call' = [call EXCEPT ![w] = NoSave]
    /\ UNCHANGED <<cfg, lockHolder, pc, req, resp, sent, snap, expired, imp>>

\* --------------------------------------------------- app.py: bulk import
\* an element of the uploaded array: a JSON object with its 'ip-address',
\* 'hw-address', 'dns-servers' and 'subnet-id' ("" for a key it lacks), or a
\* value that is not an object (null, a number, a string)
Item(object, ip, mac, dns, sid) ==
    [object |-> object, ip |-> ip, mac |-> mac, dns |-> dns, sid |-> sid]
NotAnObject == Item(FALSE, "", "", "", None)
Items ==
    {Item(TRUE, "192.168.1.50", "aa:01", "", "1"),
     Item(TRUE, "192.168.1.51", "", "", "1"),
     Item(TRUE, "192.168.1.51", "bb:02", "bad", "1"),
     NotAnObject}

\* the arrays a client uploads
Uploads == SeqsUpTo(Items, MaxItems)

\* the import of a worker: the uploaded array, the index of the item the loop
\* is at, success_count, and the 'index' of each entry of failed_items
Import(items, idx, success_count, failed_items) ==
    [items |-> items, idx |-> idx, success_count |-> success_count,
     failed_items |-> failed_items]
NoImport == Import(<<>>, 0, 0, <<>>)

\* the loop goes on to the next item after a success
ItemDone(i) ==
    Import(i.items, i.idx + 1, i.success_count + 1, i.failed_items)

\* the loop goes on to the next item after a failure: failed_count += 1 and
\* failed_items.append({'index': idx + 1, ...})
ItemFailed(i) ==
    Import(i.items, i.idx + 1, i.success_count, Append(i.failed_items, i.idx))

\* POST /api/reservations/import reaches an idle worker with an uploaded array
ImportStart(w, items) ==
    /\ pc[w] = "idle"
    /\ req' = [req EXCEPT ![w] = Request("import", "", "", FALSE, None, "")]
    /\ imp' = [imp EXCEPT ![w] = Import(items, 1, 0, <<>>)]
    /\ sent' = [sent EXCEPT ![w] = {}]
    /\ resp' = [resp EXCEPT ![w] = NoResponse]
    /\ pc' = [pc EXCEPT ![w] = "imp_item"]
    /\ expired' = [expired EXCEPT ![w] = FALSE]
    /\ UNCHANGED <<cfg, lockHolder, snap, call, auth>>

\* the head of the loop body: the required fields and the DNS servers of the
\* item; after the last item the summary is answered with 200. An item that
\* is not an object raises AttributeError at reservation.get, and again in the
\* "except Exception" of the item, which the outer handler answers with 500
ImportItem(w) ==
    /\ pc[w] = "imp_item"
    /\ LET i == imp[w]
       IN  IF i.idx > Len(i.items)
           THEN Return(w, Response(200, "imported", <<>>)) /\ UNCHANGED imp
           ELSE LET item == i.items[i.idx]
                IN  IF ~item.object
                    THEN Return(w, Response(500, "AttributeError", <<>>)) /\ UNCHANGED imp
                    ELSE IF item.ip = "" \/ item.mac = "" \/ ~ValidDns(item.dns)
                    THEN /\ imp' = [imp EXCEPT ![w] = ItemFailed(i)]
                         /\ UNCHANGED <<pc, resp>>
                    ELSE /\ pc' = [pc EXCEPT ![w] = "imp_wait"]
                         /\ UNCHANGED <<imp, resp>>
    /\ UNCHANGED <<cfg, lockHolder, req, sent, snap, expired, call, auth>>

\* "with RESERVATION_LOCK" of the item: FileLock.acquire succeeds
ImportAcquireLock(w) ==
    /\ pc[w] = "imp_wait"
    /\ lockHolder = None
    /\ lockHolder' = w
    /\ pc' = [pc EXCEPT ![w] = "imp_locked"]
    /\ UNCHANGED <<cfg, req, resp, sent, snap, expired, call, auth, imp>>

\* "with RESERVATION_LOCK" of the item: the lock stays held for the timeout
\* and FileLock.acquire raises Timeout, which fails the item
ImportLockTimeout(w) ==
    /\ pc[w] = "imp_wait"
    /\ lockHolder # None
    /\ imp' = [imp EXCEPT ![w] = ItemFailed(imp[w])]
    /\ pc' = [pc EXCEPT ![w] = "imp_item"]
    /\ UNCHANGED <<cfg, lockHolder, req, resp, sent, snap, expired, call, auth>>

\* under the lock: client.create_reservation(..., option_data=option_data)
\* for the item; the lock is released, an exception fails the item
ImportCreate(w) ==
    /\ pc[w] = "imp_locked"
    /\ LET item == imp[w].items[imp[w].idx]
       IN  \E addOut \in ReservationAddOutcomes(cfg, item.sid),
              getOut \in Outcomes, setOut \in Outcomes :
             /\ addOut # "unsupported" => getOut = "ok"
             /\ getOut # "ok" \/ addOut # "unsupported" => setOut = "ok"
             /\ LET r == CallCreateReservation(cfg, item.ip, item.mac, item.sid,
                                               addOut, getOut, setOut)
                IN  /\ cfg' = r.cfg
                    /\ sent' = [sent EXCEPT ![w] = @ \cup r.sent]
                    /\ imp' = [imp EXCEPT ![w] =
                                  IF r.raised = "none" THEN ItemDone(imp[w])
                                  ELSE ItemFailed(imp[w])]
    /\ ReleaseLock(w)
    /\ pc' = [pc EXCEPT ![w] = "imp_item"]
    /\ UNCHANGED <<req, resp, snap, expired, call, auth>>

\* the response has been delivered; the worker waits for its next request
Finish(w) ==
    /\ pc[w] = "done"
    /\ pc' = [pc EXCEPT ![w] = "idle"]
    /\ req' = [req EXCEPT ![w] = NoRequest]
    /\ resp' = [resp EXCEPT ![w] = NoResponse]
    /\ sent' = [sent EXCEPT ![w] = {}]
    /\ expired' = [expired EXCEPT ![w] = FALSE]
    /\ imp' = [imp EXCEPT ![w] = NoImport]
    /\ UNCHANGED <<cfg, lockHolder, snap, call, auth>>

WorkersIdle ==
    /\ lockHolder = None
    /\ pc = [w \in Workers |-> "idle"]
    /\ req = [w \in Workers |-> NoRequest]
    /\ resp = [w \in Workers |-> NoResponse]
    /\ sent = [w \in Workers |-> {}]
    /\ snap = [w \in Workers |-> <<>>]
    /\ expired = [w \in Workers |-> FALSE]
    /\ auth = NoAuth
    /\ imp = [w \in Workers |-> NoImport]

\* --------------------------------- the gateway: create and promote, racing
\* requests the workers of Spec serve
SpecRequests ==
    {r \in CreateRequests \cup PromoteRequests :
        /\ r.mac \in {"aa:01", "bb:02"}
        /\ r.dns \in {"", "bad"}
        /\ r.kind = "create" => r.sid = "1"
        /\ r.kind = "promote" => r.sid = None /\ r.mac = "aa:01"}

\* configurations Spec starts from
SpecConfigs ==
    {c \in AllConfigs : Len(c[1].reservations) <= 1 /\ c[2].reservations = <<>>}

Init ==
    /\ cfg \in SpecConfigs
    /\ WorkersIdle
    /\ call = NoCall

Next ==
    \E w \in Workers :
        \/ \E r \in SpecRequests : Start(w, r)
        \/ PromoteBadDns(w)
        \/ AcquireLock(w)
        \/ TimeoutPasses(w)
        \/ LockTimeout(w)
        \/ CheckExisting(w)
        \/ CreateCall(w)
        \/ Finish(w)

Spec == Init /\ [][Next]_vars

\* FileLock.acquire polls: the clock advances, and each poll either takes the
\* free lock or, past the timeout, raises
FairSpec ==
    /\ Spec
    /\ \A w \in Workers :
        /\ WF_vars(TimeoutPasses(w))
        /\ WF_vars(AcquireLock(w) \/ LockTimeout(w))

\* ------------------------------------- the gateway: one request at a time
SeqInit ==
    /\ cfg \in AllConfigs
    /\ WorkersIdle
    /\ call = NoCall

SeqNext ==
    \/ \E r \in CreateRequests \cup PromoteRequests \cup DeleteRequests : Start("w1", r)
    \/ PromoteBadDns("w1")
    \/ AcquireLock("w1")
    \/ CheckExisting("w1")
    \/ CreateCall("w1")
    \/ DeleteNative("w1")
    \/ DeleteConfigGet("w1")
    \/ DeleteConfigSet("w1")
    \/ Finish("w1")

SeqSpec == SeqInit /\ [][SeqNext]_vars

\* ------------------------------------------ the gateway: deletions, racing
DeleteConfigs == {c \in AllConfigs : c[2].reservations = <<>>}

DeleteInit ==
    /\ cfg \in DeleteConfigs
    /\ WorkersIdle
    /\ call = NoCall

DeleteNext ==
    \E w \in Workers :
        \/ \E r \in DeleteRequests : Start(w, r)
        \/ DeleteNative(w)
        \/ DeleteConfigGet(w)
        \/ DeleteConfigSet(w)
        \/ Finish(w)

DeleteSpec == DeleteInit /\ [][DeleteNext]_vars

\* ------------------------------------------------ KeaClient, called directly
\* subnet ids a caller can pass: those of the configuration, none, and one
\* that no subnet has
ClientSubnetArgs == SubnetArgs \cup {"3"}

ClientInit ==
    /\ cfg \in AllConfigs
    /\ WorkersIdle
    /\ call = NoCall

\* one call of KeaClient.create_reservation(ip, mac, "", sid)
ClientCreate ==
    /\ call.op = "none"
    /\ \E ip \in IPs, mac \in MACs, sid \in ClientSubnetArgs,
          addOut \in Outcomes, getOut \in Outcomes, setOut \in Outcomes :
        /\ addOut \in ReservationAddOutcomes(cfg, sid)
        /\ LET r == KeaCreateReservation(cfg, ip, mac, sid, addOut, getOut, setOut)
           IN  /\ call' = Call("create_reservation", ip, mac, sid, addOut, getOut,
                               setOut, cfg, r)
               /\ cfg' = r.cfg
    /\ UNCHANGED <<lockHolder, pc, req, resp, sent, snap, expired, auth, imp>>

\* one call of KeaClient.get_reservations(sid)
ClientList ==
    /\ call.op = "none"
    /\ \E sid \in ClientSubnetArgs, out \in Outcomes :
        LET rs == GetReservations(cfg, sid, out)
        IN  call' = Call("get_reservations", "", "", sid, "ok", out, "ok", cfg,
                         Returned("none", cfg, {<<"config-get", out>>}, rs))
    /\ UNCHANGED <<cfg, lockHolder, pc, req, resp, sent, snap, expired, auth, imp>>

ClientNext == ClientCreate \/ ClientList

ClientSpec == ClientInit /\ [][ClientNext]_vars

\* subnets 1 and 2 without reservations
NoReservations ==
    <<[id |-> "1", reservations |-> <<>>], [id |-> "2", reservations |-> <<>>]>>

\* -------------------------------------------- KeaClient: one command sent
TransportInit ==
    /\ cfg = NoReservations
    /\ WorkersIdle
    /\ call = NoCall

\* one call of KeaClient._send_command, answered by the backend with r
SendCommandCall ==
    /\ call.op = "none"
    /\ \E r \in BackendResponses, raiseOnUnsupported \in BOOLEAN :
        LET out == SendCommand(r, raiseOnUnsupported)
        IN  call' = [op |-> "_send_command", response |-> r,
                     raise_on_unsupported |-> raiseOnUnsupported,
                     raised |-> out.raised, msg |-> out.msg, value |-> out.value]
    /\ UNCHANGED <<cfg, lockHolder, pc, req, resp, sent, snap, expired, auth, imp>>

TransportNext == SendCommandCall

TransportSpec == TransportInit /\ [][TransportNext]_vars

\* ---------------------------------------------- KeaClient: listing leases
LeaseInit ==
    /\ cfg = NoReservations
    /\ WorkersIdle
    /\ call = NoCall

\* one call of KeaClient._get_leases_by_subnet_paged against a subnet that
\* holds the leases "stored"
WalkPages ==
    /\ call.op = "none"
    /\ \E stored \in SUBSET LeaseAddrs, failAt \in FailRounds,
          failKind \in FailKinds, emptyAs \in EmptyAnswers :
        /\ failAt = 0 => failKind = "error"
        /\ LET r == GetLeasesBySubnetPaged(stored, failAt, failKind, emptyAs)
           IN  call' = [op |-> "_get_leases_by_subnet_paged", stored |-> stored,
                        failAt |-> failAt, failKind |-> failKind,
                        emptyAs |-> emptyAs, raised |-> r.raised,
                        leases |-> r.leases, rounds |-> r.rounds]
    /\ UNCHANGED <<cfg, lockHolder, pc, req, resp, sent, snap, expired, auth, imp>>

\* one request DELETE /api/leases/mac/<mac>, against a backend that holds the
\* leases "held", answers the listing with listOut and fails the deletes of
\* the IPs in "failing"
DeleteLeasesByMacRoute ==
    /\ call.op = "none"
    /\ \E held \in MacLeases, mac \in MACs, listOut \in {"ok", "error"},
          failing \in SUBSET IPs :
        /\ listOut # "ok" => failing = {}
        /\ LET r == DeleteLeasesByMacResponse(
                        KeaDeleteLeasesByMac(held, mac, listOut, failing))
           IN  call' = [op |-> "delete_leases_by_mac", held |-> held, mac |-> mac,
                        listOut |-> listOut, failing |-> failing,
                        status |-> r.status, deleted |-> r.deleted,
                        deletes |-> r.deletes]
    /\ UNCHANGED <<cfg, lockHolder, pc, req, resp, sent, snap, expired, auth, imp>>

\* one call of KeaClient.get_leases(sid)
GetLeasesCall ==
    /\ call.op = "none"
    /\ \E held \in LeaseSets, sid \in SubnetArgs, allOut \in Outcomes,
          subnetsOut \in Outcomes, failAt \in FailRounds, failKind \in FailKinds,
          emptyAs \in EmptyAnswers, dbOut \in Outcomes, dbType \in DbTypes :
        /\ failAt = 0 => failKind = "error"
        /\ allOut # "unsupported" => subnetsOut = "ok" /\ failAt = 0
        /\ emptyAs = "empty_list"
        /\ LET r == GetLeases(cfg, held, sid, allOut, subnetsOut, failAt,
                              failKind, emptyAs, dbOut, dbType)
           IN  /\ r.paging # "raised" => dbOut = "ok" /\ dbType = "memfile"
               /\ call' = [op |-> "get_leases", held |-> held, sid |-> sid,
                            allOut |-> allOut, subnetsOut |-> subnetsOut,
                            failAt |-> failAt, failKind |-> failKind,
                            dbOut |-> dbOut, dbType |-> dbType,
                            raised |-> r.raised, leases |-> r.leases,
                            paging |-> r.paging, cmds |-> r.cmds]
    /\ UNCHANGED <<cfg, lockHolder, pc, req, resp, sent, snap, expired, auth, imp>>

LeaseNext == WalkPages \/ GetLeasesCall \/ DeleteLeasesByMacRoute

LeaseSpec == LeaseInit /\ [][LeaseNext]_vars

\* -------------------------------- KeaClient: the page walk, round by round
\* the 'ip-address' of a lease that has none, or an empty one
NoAddress == -1

\* the pages a backend can answer with, whatever "from" was: up to "limit"
\* leases, each with an address or without
AnyPages == SeqsUpTo(LeaseAddrs \cup {NoAddress}, PageLimit)

\* a page as a backend that pages in address order answers: leases strictly
\* after "from", in ascending order
AfterCursor(page, from) ==
    /\ \A k \in 1..Len(page) : page[k] > from
    /\ \A j \in 1..Len(page), k \in 1..Len(page) : j < k => page[j] < page[k]

\* _get_leases_by_subnet_paged in progress: "loop" at the head of the while
\* loop, "returned" or "raised" once it is left; from_address, and the
\* addresses of all_leases. page is the last page received, and ordered tells
\* whether every page so far was one of a backend that pages in address order
Walk(at, from, all, page, ordered) ==
    [op |-> "_get_leases_by_subnet_paged", at |-> at, from |-> from, all |-> all,
     page |-> page, ordered |-> ordered]

WalkInit ==
    /\ cfg = NoReservations
    /\ WorkersIdle
    /\ call = Walk("loop", StartAddress, {}, <<>>, TRUE)

\* one iteration of the loop whose lease4-get-page is answered with a page
WalkPage ==
    /\ call.op = "_get_leases_by_subnet_paged" /\ call.at = "loop"
    /\ \E page \in AnyPages :
        LET more == call.all \cup Range(page)
            ordered == call.ordered /\ AfterCursor(page, call.from)
        IN  call' =
              IF page = <<>> THEN Walk("returned", call.from, call.all, page, ordered)
              ELSE IF Len(page) < PageLimit
              THEN Walk("returned", call.from, more, page, ordered)
              ELSE IF NextFrom(page) = NoAddress
              THEN Walk("returned", NoAddress, more, page, ordered)
              ELSE Walk("loop", NextFrom(page), more, page, ordered)
    /\ UNCHANGED <<cfg, lockHolder, pc, req, resp, sent, snap, expired, auth, imp>>

\* one iteration of the loop whose lease4-get-page fails: Unsupported is
\* raised again, any other exception is logged and ends the loop
WalkFails ==
    /\ call.op = "_get_leases_by_subnet_paged" /\ call.at = "loop"
    /\ \E kind \in FailKinds :
        call' = Walk(IF kind = "unsupported" THEN "raised" ELSE "returned",
                     call.from, call.all, <<>>, call.ordered)
    /\ UNCHANGED <<cfg, lockHolder, pc, req, resp, sent, snap, expired, auth, imp>>

WalkNext == WalkPage \/ WalkFails

\* the loop keeps running: an iteration is taken whenever one can be
WalkSpec == WalkInit /\ [][WalkNext]_vars /\ WF_vars(WalkNext)

\* ------------------------------------- the gateway: sessions and first run
AuthInit ==
    /\ cfg = NoReservations
    /\ WorkersIdle
    /\ call = NoCall

AuthNext ==
    \/ SessionExpires
    \/ \E w \in Workers :
        \/ \E p \in Passwords : Login(w, p)
        \/ \E h \in Headers : Logout(w, h)
        \/ \E path \in Paths, h \in Headers : Handle(w, path, h)
        \/ \E h \in Headers : RegenerateApiToken(w, h)
        \/ \E p \in Passwords : SetupCheck(w, p)
        \/ \E written \in BOOLEAN : SetupWrite(w, written)

AuthSpec == AuthInit /\ [][AuthNext]_vars

\* ------------------------------- the gateway: saving the configuration
\* the 'app' sections config.yaml can hold when the workers start: a fresh
\* installation, one of an older version with its auth_token, and one whose
\* first-run setup is done
StoredApps ==
    {NoApp,
     AppSection(NoHash, NoToken, LegacyToken),
     AppSection(HashPassword("first-password"), StartupToken("w1"), NoToken)}

\* the Authorization headers of the requests
ConfigHeaders ==
    {NoHeader} \cup {Header("Bearer", t) : t \in ApiTokens \cup {LegacyToken}}

ConfigInit ==
    /\ cfg = NoReservations
    /\ lockHolder = None
    /\ pc = [w \in Workers |-> "idle"]
    /\ req = [w \in Workers |-> NoRequest]
    /\ resp = [w \in Workers |-> NoResponse]
    /\ sent = [w \in Workers |-> {}]
    /\ snap = [w \in Workers |-> <<>>]
    /\ expired = [w \in Workers |-> FALSE]
    /\ imp = [w \in Workers |-> NoImport]
    /\ call = [w \in Workers |-> NoSave]
    /\ \E app \in StoredApps :
          auth = [NoAuth EXCEPT !.password_hash = app.password_hash,
                                !.api_token = app.api_token,
                                !.auth_token = app.auth_token,
                                !.AUTH_TOKEN = [w \in Workers |->
                                                  LoadOrInitAuth(app, w)]]

ConfigNext ==
    \E w \in Workers :
        \/ \E h \in ConfigHeaders, app \in AppSections : SaveConfigRead(w, h, app)
        \/ \E written \in BOOLEAN : SaveConfigWrite(w, written)
        \/ \E h \in ConfigHeaders : call[w].at = "idle" /\ RegenerateApiToken(w, h)
        \/ call[w].at = "idle" /\ SetupCheck(w, "first-password")
        \/ \E written \in BOOLEAN : SetupWrite(w, written)

ConfigSpec == ConfigInit /\ [][ConfigNext]_vars

\* ------------------------- the gateway: import, create and promote, racing
\* create and promote requests the workers of ImportSpec serve
ImportSpecRequests ==
    {r \in SpecRequests :
        r.ip = "192.168.1.50" /\ r.mac = "aa:01" /\ r.dns = "" /\ ~r.force}

\* configurations ImportSpec starts from: no reservation, or the IP of the
\* requests reserved for another MAC
ImportConfigs ==
    {c \in SpecConfigs :
        \A k \in 1..Len(c[1].reservations) :
            c[1].reservations[k] = [ip |-> "192.168.1.50", mac |-> "bb:02"]}

ImportInit ==
    /\ cfg \in ImportConfigs
    /\ WorkersIdle
    /\ call = NoCall

ImportNext ==
    \E w \in Workers :
        \/ \E r \in ImportSpecRequests : Start(w, r)
        \/ \E items \in Uploads : ImportStart(w, items)
        \/ AcquireLock(w)
        \/ TimeoutPasses(w)
        \/ LockTimeout(w)
        \/ CheckExisting(w)
        \/ CreateCall(w)
        \/ ImportItem(w)
        \/ ImportAcquireLock(w)
        \/ ImportLockTimeout(w)
        \/ ImportCreate(w)
        \/ Finish(w)

ImportSpec == ImportInit /\ [][ImportNext]_vars

\* ------------------------------------------------------------- properties
\* the reservations of the subnets a request with subnet id sid is about
\* (every subnet when sid is None), each with the id of its subnet
Stored(config, sid) ==
    UNION {{[ip |-> config[i].reservations[k].ip,
             mac |-> config[i].reservations[k].mac,
             sid |-> config[i].id] : k \in 1..Len(config[i].reservations)} :
           i \in {j \in 1..Len(config) : sid = None \/ config[j].id = sid}}

\* every command of cmds was answered with result 0, except that
\* reservation-add may have been answered "unsupported"
BackendFine(cmds) ==
    \A c \in cmds : c[2] = "ok" \/ (c[1] = "reservation-add" /\ c[2] = "unsupported")

\* no command of cmds writes to the backend
NoWrite(cmds) == \A c \in cmds : c[1] \notin {"reservation-add", "config-set"}

\* worker w answers its request in this step
Returns(w) == pc[w] # "done" /\ pc'[w] = "done"

\* w is serving (or has just answered) a create-reservation request
Creating(w) == req[w].kind = "create"

\* C1: two create requests (force=false) of different workers for the same
\* IP with different MACs, both arrived while neither the IP nor either MAC
\* had a reservation and the backend answered every command: one is answered
\* 200, the other 409
C1_OneAcceptedOneRejected ==
    \A w1 \in Workers, w2 \in Workers :
        ( /\ w1 # w2
          /\ pc[w1] = "done" /\ pc[w2] = "done"
          /\ Creating(w1) /\ Creating(w2)
          /\ req[w1].ip = req[w2].ip /\ req[w1].sid = req[w2].sid
          /\ Lower(req[w1].mac) # Lower(req[w2].mac)
          /\ ~req[w1].force /\ ~req[w2].force
          /\ req[w1].ipFree /\ req[w2].ipFree
          /\ req[w1].macFree /\ req[w2].macFree
          /\ ValidDns(req[w1].dns) /\ ValidDns(req[w2].dns)
          /\ BackendFine(sent[w1]) /\ BackendFine(sent[w2])
          /\ resp[w1].status # 503 /\ resp[w2].status # 503 )
        => {resp[w1].status, resp[w2].status} = {200, 409}

C3_Original ==
    [][\A w \in Workers :
        ( /\ Returns(w) /\ Creating(w)
          /\ \E e \in Stored(cfg, None) : e.ip = req[w].ip /\ e.mac = req[w].mac )
        => /\ resp'[w].status = 200
           /\ \E e \in Range(resp'[w].res) :
                e.ip = req[w].ip /\ Lower(e.mac) = Lower(req[w].mac)
           /\ NoWrite(sent'[w])
           /\ cfg' = cfg]_vars

\* C3, amended: the same, when the config-get of the conflict check succeeds,
\* the stored reservation lies in a subnet the request considers, and no
\* considered subnet holds that IP with another MAC; the reservation carried
\* is one with that IP and (ignoring case) that MAC
C3_IdempotentCreate ==
    [][\A w \in Workers :
        ( /\ Returns(w) /\ Creating(w)
          /\ <<"config-get", "ok">> \in sent'[w]
          /\ \E e \in Stored(cfg, req[w].sid) : e.ip = req[w].ip /\ e.mac = req[w].mac
          /\ \A e \in Stored(cfg, req[w].sid) :
                e.ip = req[w].ip => Lower(e.mac) = Lower(req[w].mac) )
        => /\ resp'[w].status = 200
           /\ \E e \in Range(resp'[w].res) :
                e.ip = req[w].ip /\ Lower(e.mac) = Lower(req[w].mac)
           /\ NoWrite(sent'[w])
           /\ cfg' = cfg]_vars

\* a create request was answered 200 "already exists"
C3_Witness ==
    \E w \in Workers :
        /\ pc[w] = "done" /\ Creating(w)
        /\ resp[w].status = 200 /\ resp[w].kind = "exists"
        /\ \E e \in Stored(cfg, req[w].sid) : e.ip = req[w].ip /\ e.mac = req[w].mac

\* C4 as stated: with (ip, mac1) stored, a create request (ip, mac2),
\* mac1 # mac2, force=false, is answered 409 carrying the existing
\* reservation, sends no write command and leaves (ip, mac1) stored
C4_Original ==
    [][\A w \in Workers :
        \A e \in Stored(cfg, None) :
            ( /\ Returns(w) /\ Creating(w) /\ ~req[w].force
              /\ e.ip = req[w].ip /\ Lower(e.mac) # Lower(req[w].mac) )
            => /\ resp'[w].status = 409
               /\ \E x \in Range(resp'[w].res) :
                    x.ip = e.ip /\ Lower(x.mac) = Lower(e.mac)
               /\ NoWrite(sent'[w])
               /\ e \in Stored(cfg', None)]_vars

\* C4, amended: the same, when the config-get of the conflict check succeeds,
\* (ip, mac1) lies in a subnet the request considers and every reservation
\* with that IP in the considered subnets has MAC mac1
C4_IpConflictRejected ==
    [][\A w \in Workers :
        \A e \in Stored(cfg, req[w].sid) :
            ( /\ Returns(w) /\ Creating(w) /\ ~req[w].force
              /\ <<"config-get", "ok">> \in sent'[w]
              /\ e.ip = req[w].ip /\ Lower(e.mac) # Lower(req[w].mac)
              /\ \A x \in Stored(cfg, req[w].sid) : x.ip = e.ip => x.mac = e.mac )
            => /\ resp'[w].status = 409
               /\ \E x \in Range(resp'[w].res) : x.ip = e.ip /\ x.mac = e.mac
               /\ NoWrite(sent'[w])
               /\ e \in Stored(cfg', req[w].sid)]_vars

\* a create request was answered 409 for an IP held by another MAC
C4_Witness ==
    \E w \in Workers :
        /\ pc[w] = "done" /\ Creating(w) /\ ~req[w].force
        /\ resp[w].status = 409 /\ resp[w].kind = "ip_conflict"
        /\ \E e \in Stored(cfg, req[w].sid) :
              e.ip = req[w].ip /\ Lower(e.mac) # Lower(req[w].mac)

\* C5: with (ip, mac1) stored, a create request (ip, mac2) with force=true
\* and a backend that answers every command is answered 200, and afterwards
\* the subnets it considers hold ip with mac2 and with no other MAC
C5_ForceOverwrites ==
    [][\A w \in Workers :
        ( /\ Returns(w) /\ Creating(w) /\ req[w].force
          /\ ValidDns(req[w].dns)
          /\ BackendFine(sent'[w])
          /\ \E e \in Stored(cfg, req[w].sid) :
                e.ip = req[w].ip /\ Lower(e.mac) # Lower(req[w].mac) )
        => /\ resp'[w].status = 200
           /\ \E e \in Stored(cfg', req[w].sid) : e.ip = req[w].ip
           /\ \A e \in Stored(cfg', req[w].sid) :
                e.ip = req[w].ip => e.mac = req[w].mac]_vars

\* C6: a create request against a configuration without reservations, with a
\* backend that answers every command, is answered 200 and a following
\* get_reservations lists an entry with its IP and MAC
C6_CreateOnEmptySet ==
    [][\A w \in Workers :
        ( /\ Returns(w) /\ Creating(w)
          /\ ValidDns(req[w].dns)
          /\ BackendFine(sent'[w])
          /\ Stored(cfg, None) = {} )
        => /\ resp'[w].status = 200
           /\ \E e \in Range(GetReservations(cfg', None, "ok")) :
                e.ip = req[w].ip /\ e.mac = req[w].mac]_vars

\* C7: create_reservation with reservation-add answered "unsupported",
\* config-get and config-set answered with result 0 and a target subnet in
\* the configuration returns the new reservation, and the configuration
\* written holds it in that subnet
C7_FallbackSucceeds ==
    ( /\ call.op = "create_reservation"
      /\ call.addOut = "unsupported" /\ call.getOut = "ok" /\ call.setOut = "ok"
      /\ \E i \in 1..Len(call.before) : call.sid \in {None, call.before[i].id} )
    => /\ call.raised = "none"
       /\ call.ret = <<[ip |-> call.ip, mac |-> call.mac]>>
       /\ <<"config-set", "ok">> \in call.sent
       /\ \E e \in Stored(cfg, call.sid) : e.ip = call.ip /\ e.mac = call.mac

\* C8: a worker leaves FileLock.acquire only by taking the free lock or,
\* once the timeout has passed and another worker holds the lock, by
\* answering 503 "busy, retry" without having sent a command, entered the
\* locked section or changed the backend; and it does leave it
C8_LockTimeoutIs503 ==
    /\ \A w \in Workers : (pc[w] = "waiting") ~> (pc[w] # "waiting")
    /\ [][\A w \in Workers :
        (pc[w] = "waiting" /\ pc'[w] # "waiting")
        => \/ /\ lockHolder = None /\ lockHolder' = w /\ pc'[w] = "locked"
           \/ /\ expired[w]
              /\ lockHolder \in Workers \ {w} /\ lockHolder' = lockHolder
              /\ pc'[w] = "done"
              /\ resp'[w] = Response(503, "busy_retry", <<>>)
              /\ sent'[w] = {}
              /\ cfg' = cfg]_vars

\* a worker was answered 503 while the other one was inside the locked section
C8_Witness ==
    \E w \in Workers :
        /\ pc[w] = "done" /\ resp[w].status = 503
        /\ \E v \in Workers \ {w} : lockHolder = v /\ pc[v] \in {"locked", "checked"}

\* C9: a worker holds the reservation lock only between acquiring it and
\* leaving the locked section: a worker that has answered (or has not
\* acquired yet) holds no lock
C9_LockReleasedOnExit ==
    \A w \in Workers : lockHolder = w => pc[w] \in {"locked", "checked"}

\* a request left the locked section through the exception of the backend
\* call (500) and a later request of the other worker has the lock
C9_Witness ==
    \E w \in Workers, v \in Workers :
        /\ w # v
        /\ pc[w] = "done" /\ resp[w].status = 500
        /\ lockHolder = v /\ pc[v] = "checked"

\* C10: when two workers have both answered 200 to delete-reservation
\* requests, no considered subnet holds a reservation for either IP
C10_NoLostDelete ==
    \A w1 \in Workers, w2 \in Workers :
        ( /\ w1 # w2
          /\ pc[w1] = "done" /\ pc[w2] = "done"
          /\ req[w1].kind = "delete" /\ req[w2].kind = "delete"
          /\ resp[w1].status = 200 /\ resp[w2].status = 200 )
        => \A e \in Stored(cfg, req[w1].sid) : e.ip # req[w1].ip

\* a walk over a subnet with more leases than a page holds, every round trip
\* of it answered by the backend
FullWalk ==
    /\ call.op = "_get_leases_by_subnet_paged"
    /\ call.failAt = 0
    /\ PageLimit < Cardinality(call.stored)

\* C11 as stated: such a walk returns the N leases of the subnet, each once,
\* after ceil(N/P) round trips
C11_Original ==
    FullWalk
    => /\ call.raised = "none"
       /\ call.leases = Ascending(call.stored)
       /\ call.rounds = (Cardinality(call.stored) + PageLimit - 1) \div PageLimit

\* C11, amended: such a walk returns the N leases of the subnet, each once,
\* after floor(N/P) + 1 round trips: ceil(N/P) when N is not a multiple of P,
\* and N/P + 1 when it is (the last page then comes back empty)
C11_PagedWalkComplete ==
    FullWalk
    => /\ call.raised = "none"
       /\ Len(call.leases) = Cardinality(call.stored)
       /\ Range(call.leases) = call.stored
       /\ call.rounds = Cardinality(call.stored) \div PageLimit + 1

\* a walk over a subnet whose leases fill several pages exactly
C11_Witness ==
    /\ FullWalk
    /\ Cardinality(call.stored) % PageLimit = 0
    /\ call.rounds = Cardinality(call.stored) \div PageLimit + 1
    /\ Len(call.leases) = Cardinality(call.stored)

\* worker w runs the conflict check of a create request in this step
Checks(w) == pc[w] = "locked" /\ pc'[w] # "locked" /\ Creating(w)

\* C12 as stated: with a reservation stored for the requested MAC (ignoring
\* case) and another IP, a create request with force=false is answered 409
\* carrying a reservation of that MAC with its other IP, and no write command
\* is sent; with force=true the request goes on to the create call
C12_Original ==
    [][\A w \in Workers :
        ( /\ Checks(w)
          /\ \E e \in Stored(cfg, None) :
                Lower(e.mac) = Lower(req[w].mac) /\ e.ip # req[w].ip )
        => IF req[w].force
           THEN pc'[w] = "checked"
           ELSE /\ pc'[w] = "done"
                /\ resp'[w].status = 409
                /\ \E x \in Range(resp'[w].res) :
                      Lower(x.mac) = Lower(req[w].mac) /\ x.ip # req[w].ip
                /\ NoWrite(sent'[w])]_vars

\* C12, amended: the same, when the config-get of the conflict check
\* succeeds, the reservation of that MAC lies in a subnet the request
\* considers and no considered subnet holds a reservation for the requested
\* IP. The 409 carries the first listed reservation of that MAC and leaves
\* the lock and an unchanged backend; with force=true the worker reaches the
\* create call still holding the lock
C12_MacConflictRejected ==
    [][\A w \in Workers :
        ( /\ Checks(w)
          /\ <<"config-get", "ok">> \in sent'[w]
          /\ \E e \in Stored(cfg, req[w].sid) :
                Lower(e.mac) = Lower(req[w].mac) /\ e.ip # req[w].ip
          /\ \A e \in Stored(cfg, req[w].sid) : e.ip # req[w].ip )
        => IF req[w].force
           THEN /\ pc'[w] = "checked"
                /\ lockHolder' = w
                /\ resp'[w] = NoResponse
                /\ cfg' = cfg
           ELSE LET rs == ListReservations(cfg, req[w].sid)
                IN  /\ pc'[w] = "done"
                    /\ resp'[w] = Response(409, "mac_conflict",
                                           <<rs[FirstByMac(rs, req[w].mac)]>>)
                    /\ \E x \in Range(resp'[w].res) :
                          Lower(x.mac) = Lower(req[w].mac) /\ x.ip # req[w].ip
                    /\ NoWrite(sent'[w])
                    /\ lockHolder' = None
                    /\ cfg' = cfg]_vars

\* a create request was answered 409 for a MAC that holds another IP
C12_Witness ==
    \E w \in Workers :
        /\ pc[w] = "done" /\ Creating(w) /\ ~req[w].force
        /\ resp[w].status = 409 /\ resp[w].kind = "mac_conflict"
        /\ \E e \in Stored(cfg, req[w].sid) :
              Lower(e.mac) = Lower(req[w].mac) /\ e.ip # req[w].ip

\* _send_command was called and the backend answered with a list whose first
\* element carries a result code and a text
WellFormed ==
    /\ call.op = "_send_command"
    /\ call.response.shape = "envelope"
    /\ call.response.hasResult /\ call.response.hasText

\* the text names an unsupported command, whatever its case
NamesUnsupported(t) ==
    \E i \in 1..Len(t) :
        \/ /\ i + 1 <= Len(t)
           /\ t[i] \in {"not", "Not"} /\ t[i + 1] \in {"supported", "SUPPORTED"}
        \/ /\ i + 2 <= Len(t)
           /\ t[i] = "command" /\ t[i + 1] \in {"not", "Not"} /\ t[i + 2] = "found"

\* C13: a well-formed response is classified by its first element: result 0
\* returns the element; result 2, or a non-zero result whose text names an
\* unsupported command in any case, is the Unsupported outcome
\* (CommandNotSupportedException, or None with raise_on_unsupported false);
\* every other non-zero result raises a command error carrying the text
C13_ResponseClassified ==
    WellFormed =>
        LET r == call.response
        IN  CASE r.result = 0 ->
                   call.raised = "none" /\ call.value = <<r>>
              [] r.result = 2 \/ (r.result # 0 /\ NamesUnsupported(r.text)) ->
                   IF call.raise_on_unsupported
                   THEN call.raised = "CommandNotSupportedException"
                   ELSE call.raised = "none" /\ call.value = <<None>>
              [] OTHER ->
                   call.raised = "Exception" /\ call.msg = r.text

\* a non-zero result other than 2 whose text says "Not SUPPORTED" was
\* classified as Unsupported
C13_Witness ==
    /\ WellFormed
    /\ call.response.result \notin {0, 2}
    /\ \E i \in 1..(Len(call.response.text) - 1) :
          call.response.text[i] = "Not" /\ call.response.text[i + 1] = "SUPPORTED"
    /\ call.raise_on_unsupported
    /\ call.raised = "CommandNotSupportedException"

\* C14: a response that is not a list, or is an empty list, makes
\* _send_command raise instead of returning a value
C14_MalformedIsProtocolError ==
    ( /\ call.op = "_send_command"
      /\ call.response.shape \in {"object", "empty_list"} )
    => call.raised # "none"

\* C15: when lease4-get-all is Unsupported and the paging tier raises,
\* get_leases raises an error naming the lease_cmds hook; the error names the
\* lease-database type when its lookup succeeded, and is the generic one only
\* when the lookup failed
C15_CapabilityErrorNamesBackend ==
    ( /\ call.op = "get_leases"
      /\ call.allOut = "unsupported"
      /\ call.paging = "raised" )
    => /\ call.raised.kind = "CapabilityError"
       /\ call.raised.hook = "lease_cmds"
       /\ call.dbOut = "ok" => call.raised.type = <<call.dbType>>
       /\ call.dbOut # "ok" => call.raised.type = <<>>

\* create_reservation went through the config rewrite and the backend
\* answered config-get and config-set with result 0
RewriteAnswered ==
    /\ call.op = "create_reservation"
    /\ call.addOut = "unsupported" /\ call.getOut = "ok" /\ call.setOut = "ok"

\* C16: when the subnet named by the subnet id already holds a reservation
\* with the new IP or the new MAC, the config rewrite succeeds, sends
\* config-set, and that subnet then holds the new reservation as its only
\* entry for that IP and for that MAC
C16_RewriteReplacesDuplicate ==
    \A i \in 1..Len(call.before) :
        ( /\ RewriteAnswered
          /\ call.before[i].id = call.sid
          /\ \E e \in Range(call.before[i].reservations) :
                e.ip = call.ip \/ e.mac = call.mac )
        => /\ call.raised = "none"
           /\ <<"config-set", "ok">> \in call.sent
           /\ [ip |-> call.ip, mac |-> call.mac] \in Range(cfg[i].reservations)
           /\ Cardinality({k \in 1..Len(cfg[i].reservations) :
                    \/ cfg[i].reservations[k].ip = call.ip
                    \/ cfg[i].reservations[k].mac = call.mac}) = 1

\* the configuration "before" with the new reservation appended to subnet i
AppendedAt(i) ==
    [call.before EXCEPT ![i].reservations =
        Append(@, [ip |-> call.ip, mac |-> call.mac])]

\* C17: in a config rewrite that meets no reservation with the new IP or MAC,
\* the reservation goes to the subnet with the given id, or to the first
\* subnet when no id is given; with an id that no subnet has, the call
\* raises and sends no config-set
C17_TargetSubnet ==
    ( /\ RewriteAnswered
      /\ \A e \in Stored(call.before, None) : e.ip # call.ip /\ e.mac # call.mac )
    => /\ call.sid = None => call.raised = "none" /\ cfg = AppendedAt(1)
       /\ \A i \in 1..Len(call.before) :
             call.before[i].id = call.sid
             => call.raised = "none" /\ cfg = AppendedAt(i)
       /\ (call.sid # None /\ \A i \in 1..Len(call.before) :
                                  call.before[i].id # call.sid)
          => /\ call.raised # "none"
             /\ \A c \in call.sent : c[1] # "config-set"
             /\ cfg = call.before

\* w is serving (or has just answered) a delete-reservation request
Deleting(w) == req[w].kind = "delete"

\* the reservations for ip in the subnets a request with subnet id sid considers
Holding(config, ip, sid) == {e \in Stored(config, sid) : e.ip = ip}

\* C18: a delete sends reservation-del first and goes on to the config
\* rewrite only when that was answered Unsupported; a rewrite whose
\* config-get and config-set succeed removes the reservations with that IP
\* from the considered subnets and nothing else; a rewrite that finds no
\* such reservation raises "not found", sends no config-set and leaves the
\* configuration as it was
C18_DeleteFallsBackToRewrite ==
    [][\A w \in Workers :
        Deleting(w) =>
          /\ sent'[w] # {} => \E c \in sent'[w] : c[1] = "reservation-del"
          /\ (\E c \in sent'[w] : c[1] \in {"config-get", "config-set"})
             => <<"reservation-del", "unsupported">> \in sent'[w]
          /\ (Returns(w) /\ <<"config-set", "ok">> \in sent'[w])
             => /\ Holding(cfg, req[w].ip, req[w].sid) # {}
                /\ Holding(cfg', req[w].ip, req[w].sid) = {}
                /\ Stored(cfg', None)
                     = Stored(cfg, None) \ Holding(cfg, req[w].ip, req[w].sid)
                /\ resp'[w].kind = "deleted"
          /\ ( /\ Returns(w) /\ <<"config-get", "ok">> \in sent'[w]
               /\ Holding(cfg, req[w].ip, req[w].sid) = {} )
             => /\ resp'[w].kind = "not_found"
                /\ \A c \in sent'[w] : c[1] # "config-set"
                /\ cfg' = cfg]_vars

\* a delete went through the config rewrite and removed the reservation
C18_Witness ==
    \E w \in Workers :
        /\ pc[w] = "done" /\ Deleting(w)
        /\ sent[w] = {<<"reservation-del", "unsupported">>, <<"config-get", "ok">>,
                       <<"config-set", "ok">>}
        /\ resp[w].kind = "deleted"
        /\ Holding(cfg, req[w].ip, req[w].sid) = {}
        /\ Stored(cfg, None) # {}

\* C19: a delete request for an IP that no considered subnet holds a
\* reservation for, with the backend answering config-get, is answered 404
\* or 400
C19_DeleteOfMissingIsNotFound ==
    [][\A w \in Workers :
        ( /\ Returns(w) /\ Deleting(w)
          /\ <<"config-get", "ok">> \in sent'[w]
          /\ Holding(cfg, req[w].ip, req[w].sid) = {} )
        => resp'[w].status \in {400, 404}]_vars

\* the config-get of the conflict check is among cmds and it failed
ListingFailed(cmds) == \E c \in cmds : c[1] = "config-get" /\ c[2] # "ok"

\* C20: a create request whose reservation listing failed is not answered by
\* the conflict check: the worker reaches the create step holding the lock,
\* and (its DNS servers being valid) sends the create command before it
\* answers, still holding the lock
C20_ListingFailureProceeds ==
    [][\A w \in Workers :
        /\ (Checks(w) /\ ListingFailed(sent'[w]))
           => pc'[w] = "checked" /\ lockHolder' = w /\ resp'[w] = NoResponse
        /\ ( /\ pc[w] = "checked" /\ Returns(w) /\ Creating(w)
             /\ ListingFailed(sent[w]) /\ ValidDns(req[w].dns) )
           => /\ lockHolder = w
              /\ \E c \in sent'[w] : c[1] = "reservation-add"]_vars

\* number of reservations embedded in the subnets a listing with subnet id
\* sid is about
RECURSIVE Embedded(_, _)
Embedded(config, sid) ==
    IF config = <<>> THEN 0
    ELSE (IF sid = None \/ Head(config).id = sid
          THEN Len(Head(config).reservations) ELSE 0)
         + Embedded(Tail(config), sid)

\* C21: get_reservations never raises; when config-get fails it returns the
\* empty list, and when it succeeds it returns exactly the reservations
\* embedded in the subnets, those of the given subnet only when an id is given
C21_ListingNeverRaises ==
    call.op = "get_reservations"
    => /\ call.raised = "none"
       /\ call.getOut # "ok" => call.ret = <<>>
       /\ call.getOut = "ok"
          => /\ Range(call.ret) = Stored(call.before, call.sid)
             /\ Len(call.ret) = Embedded(call.before, call.sid)

\* a listing restricted to one subnet of a configuration that holds
\* reservations in both
C21_Witness ==
    /\ call.op = "get_reservations"
    /\ call.getOut = "ok" /\ call.sid = "1"
    /\ call.ret # <<>>
    /\ Stored(call.before, "2") # {}

\* C22: no response of a route carries the Unsupported outcome of a backend
\* command: it was consumed by a fallback or became another error before
\* the handler answered
C22_UnsupportedNeverSurfaces ==
    \A w \in Workers : pc[w] = "done" => resp[w].kind # "unsupported"

\* the MACs that are the given one in another case
SameMac(m) ==
    CASE m \in {"aa:01", "AA:01"} -> {"aa:01", "AA:01"}
      [] OTHER -> {m}

LiveSession(a, t) ==
    t \in SessionTokens /\ t.n <= a.issued /\ t \notin a.late /\ t \notin a.revoked

\* 'Authorization: Bearer <token>' with a live session token or the current
\* API token
ValidBearer(a, w, h) ==
    h.scheme = "Bearer" /\ (LiveSession(a, h.token) \/ h.token = CurrentApiToken(a, w))

\* C24: a request for a path outside the open set runs its handler only when
\* it carries 'Authorization: Bearer <token>' and the token is a session token
\* that has neither expired nor been revoked by a logout, or is the current
\* API token; any other request is answered 401 and its handler does not run.
C24_OnlyValidBearerRuns ==
    [][\A w \in Workers, path \in Paths, h \in Headers :
          Handle(w, path, h) /\ ~IsOpen(path) =>
              IF ValidBearer(auth, w, h)
              THEN TRUE
              ELSE ~auth'.last.ran /\ auth'.last.status = 401]_vars

\* C25: once config.yaml holds a password hash, no setup request changes the
\* hash or the API token, and no further setup request sets a password: of the
\* setup requests, however they interleave, at most one sets the password.
C25_SetupOnlyOnce ==
    [][auth.password_hash # NoHash /\ auth'.last.op = "setup" =>
          /\ auth'.password_hash = auth.password_hash
          /\ auth'.api_token = auth.api_token
          /\ auth'.setups = auth.setups]_vars


\* w is serving (or has just answered) a promote request
Promoting(w) == req[w].kind = "promote"

\* C26 as stated: a promote request for an IP that some reservation holds,
\* whose listing succeeded, is answered 400, sends no create command and
\* leaves the stored reservations unchanged
C26_Original ==
    [][\A w \in Workers :
        ( /\ Returns(w) /\ Promoting(w)
          /\ <<"config-get", "ok">> \in sent'[w]
          /\ Holding(cfg, req[w].ip, None) # {} )
        => /\ resp'[w].status = 400
           /\ NoWrite(sent'[w])
           /\ cfg' = cfg]_vars

\* C26, amended: the same, when the reservation lies in a subnet the request
\* considers (its subnet_id, or every subnet when none is given)
C26_PromoteKeepsExisting ==
    [][\A w \in Workers :
        ( /\ Returns(w) /\ Promoting(w)
          /\ <<"config-get", "ok">> \in sent'[w]
          /\ Holding(cfg, req[w].ip, req[w].sid) # {} )
        => /\ resp'[w].status = 400
           /\ resp'[w].kind = "promote_exists"
           /\ NoWrite(sent'[w])
           /\ cfg' = cfg]_vars

\* a promote request was answered 400 for an IP that a reservation with
\* another MAC holds, listed second in its subnet
C26_Witness ==
    \E w \in Workers :
        /\ pc[w] = "done" /\ Promoting(w)
        /\ resp[w].status = 400 /\ resp[w].kind = "promote_exists"
        /\ <<"config-get", "ok">> \in sent[w]
        /\ \E i \in 1..Len(cfg) :
              /\ Len(cfg[i].reservations) = 2
              /\ cfg[i].reservations[2].ip = req[w].ip
              /\ Lower(cfg[i].reservations[2].mac) # Lower(req[w].mac)

\* w is serving (or has just answered) an import request
Importing(w) == req[w].kind = "import"

\* the entries of failed_items are in the order of the items
InOrder(failed_items) ==
    \A j \in 1..Len(failed_items), k \in 1..Len(failed_items) :
        j < k => failed_items[j] < failed_items[k]

\* C27: an import goes through every item of the uploaded array in order and
\* is answered 200 with success_count + failed_count equal to the number of
\* items and one entry of failed_items for each item that failed.
C27_ImportCountsEveryItem ==
    [][\A w \in Workers :
        Returns(w) /\ Importing(w) =>
            /\ resp'[w].status = 200
            /\ imp'[w].idx = Len(imp'[w].items) + 1
            /\ imp'[w].success_count + Len(imp'[w].failed_items) = Len(imp'[w].items)
            /\ InOrder(imp'[w].failed_items)
            /\ Range(imp'[w].failed_items) \subseteq 1..Len(imp'[w].items)]_vars

\* the commands worker w sends in this step
NewCommands(w) == sent'[w] \ sent[w]

\* C28: within the lock-holding interval of a create request the list of
\* reservations is fetched after the lock is acquired, the decision is the
\* conflict check on that list, and the create call follows the decision and
\* precedes the release of the lock; nothing is read before the lock is held.
C28_ReadDecideWriteUnderLock ==
    [][\A w \in Workers :
        Creating(w) =>
            /\ pc[w] = "waiting" => sent[w] = {}
            /\ NewCommands(w) # {} => lockHolder = w
            /\ pc[w] # "locked" /\ pc'[w] = "locked" =>
                  pc[w] = "waiting" /\ lockHolder = None /\ lockHolder' = w
            /\ pc[w] = "locked" /\ pc'[w] # "locked" =>
                  \E out \in Outcomes :
                      LET r == ConflictCheck(GetReservations(cfg, req[w].sid, out),
                                             req[w].ip, req[w].mac, req[w].force)
                      IN  /\ sent[w] = {}
                          /\ sent'[w] = {<<"config-get", out>>}
                          /\ IF r = Proceed
                             THEN pc'[w] = "checked" /\ lockHolder' = w
                             ELSE pc'[w] = "done" /\ resp'[w] = r
            /\ pc[w] # "checked" /\ pc'[w] = "checked" => pc[w] = "locked"
            /\ pc[w] = "checked" /\ pc'[w] # "checked" =>
                  lockHolder = w /\ lockHolder' = None /\ pc'[w] = "done"
            /\ lockHolder = w /\ lockHolder' # w => Returns(w)]_vars

\* a create request holds the lock after its check found a reservation for
\* another IP and let it pass, while the other worker waits for the lock
C28_Witness ==
    \E w \in Workers, v \in Workers :
        /\ Creating(w) /\ pc[w] = "checked" /\ lockHolder = w
        /\ sent[w] = {<<"config-get", "ok">>}
        /\ Stored(cfg, req[w].sid) # {}
        /\ pc[v] = "waiting"

\* worker w is inside a section guarded by RESERVATION_LOCK
InSection(w) == pc[w] \in {"locked", "checked", "imp_locked"}

\* C29: at most one worker at a time is inside a section guarded by the
\* reservation lock: create, promote, or the create of an item of an import.
C29_OneWorkerInSection == Cardinality({w \in Workers : InSection(w)}) <= 1

\* a worker is inside the section of an import item while the other worker
\* waits for the lock
C29_Witness ==
    \E w \in Workers, v \in Workers :
        /\ pc[w] = "imp_locked"
        /\ pc[v] \in {"waiting", "imp_wait"}

\* C30: the pagination walker terminates whatever the backend answers: it
\* returns or raises after finitely many round trips, also when the backend
\* keeps answering with full pages.
C30_WalkTerminates == <>(call.at \in {"returned", "raised"})

\* C31: the cursor of the page walk starts at 0.0.0.0 and after a full page
\* is the ip-address of the last lease of that page; while the backend answers
\* with leases strictly after the cursor in ascending order, each cursor is
\* greater than the one before and no page holds a lease of an earlier page.
C31_CursorAdvances ==
    /\ [][call.at = "loop" /\ call'.ordered =>
            /\ Range(call'.page) \cap call.all = {}
            /\ call'.at = "loop" =>
                  /\ Len(call'.page) = PageLimit
                  /\ call'.from = call'.page[Len(call'.page)]
                  /\ call'.from > call.from]_vars
    /\ [](call.all = {} /\ call.at = "loop" => call.from = StartAddress)

\* the walk has received two full pages in address order and goes on
C31_Witness ==
    /\ call.op = "_get_leases_by_subnet_paged"
    /\ call.at = "loop" /\ call.ordered
    /\ Cardinality(call.all) = 2 * PageLimit

\* the walk over the leases "stored" reaches the round trip that fails: every
\* page before it was full
ReachesFailure(c) ==
    /\ c.op = "_get_leases_by_subnet_paged"
    /\ c.failAt # 0
    /\ Cardinality(c.stored) >= (c.failAt - 1) * PageLimit

\* C32: when a round trip of the page walk is answered Unsupported the walk
\* raises it to its caller, whatever it had collected; when a round trip
\* fails in another way the walk returns, without raising, the leases of the
\* pages it fetched before.
C32_UnsupportedRaisedOthersPartial ==
    ReachesFailure(call) =>
        IF call.failKind = "unsupported"
        THEN call.raised = "unsupported"
        ELSE /\ call.raised = "none"
             /\ call.leases =
                  SubSeq(Ascending(call.stored), 1, (call.failAt - 1) * PageLimit)

\* a walk failed on its third round trip, after two full pages, with an error
\* other than Unsupported
C32_Witness ==
    /\ ReachesFailure(call)
    /\ call.failAt = 3 /\ call.failKind = "error"
    /\ Len(call.leases) = 2 * PageLimit

\* C33: get_leases enters the paging tier only when lease4-get-all was
\* answered Unsupported: any other failure of lease4-get-all reaches the
\* caller and neither config-get nor lease4-get-page is sent, and after a
\* successful lease4-get-all no other command is sent.
C33_PagingOnlyOnUnsupported ==
    call.op = "get_leases" =>
        /\ call.allOut = "error" =>
              call.raised = CommandError /\ call.cmds = {"lease4-get-all"}
        /\ call.allOut = "ok" =>
              call.raised = NoError /\ call.cmds = {"lease4-get-all"}
        /\ call.paging # "not_run" \/ call.cmds # {"lease4-get-all"} =>
              call.allOut = "unsupported"

\* lease4-get-all failed with an error other than Unsupported while the
\* backend held leases
C33_Witness ==
    /\ call.op = "get_leases"
    /\ call.allOut = "error"
    /\ call.raised = CommandError
    /\ \E id \in DOMAIN call.held : call.held[id] # {}

\* the names of the commands of cmds
CommandNames(cmds) == {c[1] : c \in cmds}

\* C34: KeaClient.create_reservation goes on to the config rewrite only when
\* reservation-add was answered Unsupported: any other failure of
\* reservation-add reaches the caller as it is, neither config-get nor
\* config-set is sent, and the backend is unchanged.
C34_FallbackOnlyOnUnsupported ==
    call.op = "create_reservation" =>
        /\ call.addOut = "error" =>
              /\ call.raised = "error"
              /\ call.sent = {<<"reservation-add", "error">>}
              /\ cfg = call.before
        /\ CommandNames(call.sent) \cap {"config-get", "config-set"} # {} =>
              call.addOut = "unsupported"

\* reservation-add failed with an error other than Unsupported, for a
\* reservation the config rewrite could have added
C34_Witness ==
    /\ call.op = "create_reservation"
    /\ call.addOut = "error" /\ call.raised = "error"
    /\ call.sid \in SubnetIds
    /\ Stored(call.before, None) = {}


\* the hardware addresses differ, and only in the case of their letters
CaseOnly(m1, m2) == m1 # m2 /\ Lower(m1) = Lower(m2)

\* C35: the conflict check of create_reservation compares hardware addresses
\* ignoring case. When the list is fetched and the reservations considered for
\* the requested IP hold a MAC that differs from the requested one only in
\* letter case, the request is answered 200 with that reservation and no
\* write command, never 409; and when no considered reservation holds the
\* requested IP, a considered reservation of another IP whose MAC differs only
\* in case makes a request with force=false end in the 409 of the MAC check
C35_MacComparedIgnoringCase ==
    [][\A w \in Workers :
        ( /\ Checks(w)
          /\ <<"config-get", "ok">> \in sent'[w] )
        => /\ ( /\ \E e \in Stored(cfg, req[w].sid) :
                     e.ip = req[w].ip /\ CaseOnly(e.mac, req[w].mac)
                /\ \A e \in Stored(cfg, req[w].sid) :
                     e.ip = req[w].ip => CaseOnly(e.mac, req[w].mac) )
              => /\ pc'[w] = "done"
                 /\ resp'[w].status = 200
                 /\ \E x \in Range(resp'[w].res) :
                       x.ip = req[w].ip /\ CaseOnly(x.mac, req[w].mac)
                 /\ NoWrite(sent'[w])
                 /\ cfg' = cfg
           /\ ( /\ ~req[w].force
                /\ \A e \in Stored(cfg, req[w].sid) : e.ip # req[w].ip
                /\ \E e \in Stored(cfg, req[w].sid) : CaseOnly(e.mac, req[w].mac)
                /\ \A e \in Stored(cfg, req[w].sid) : e.mac # req[w].mac )
              => /\ pc'[w] = "done"
                 /\ resp'[w].status = 409
                 /\ resp'[w].kind = "mac_conflict"
                 /\ \E x \in Range(resp'[w].res) :
                       CaseOnly(x.mac, req[w].mac) /\ x.ip # req[w].ip]_vars

C35_Witness ==
    \E w \in Workers :
        /\ pc[w] = "done" /\ Creating(w)
        /\ resp[w].status = 200 /\ resp[w].kind = "exists"
        /\ <<"config-get", "ok">> \in sent[w]
        /\ \E e \in Stored(cfg, req[w].sid) :
              e.ip = req[w].ip /\ CaseOnly(e.mac, req[w].mac)
        /\ \A e \in Stored(cfg, req[w].sid) : e.mac # req[w].mac

\* C36: with a subnet id, the conflict check of create_reservation looks at
\* the reservations of that subnet only: when none of them holds the requested
\* IP or (ignoring case) the requested MAC, the request goes on to the create
\* call whatever the other subnets hold, and a response of the check never
\* carries a reservation of another subnet. Without a subnet id every subnet
\* is looked at: with the list fetched and force=false, a reservation of the
\* requested IP in any subnet, none of them with the requested MAC, is
\* answered 409, and one with the requested MAC is answered 200 when no
\* other MAC holds that IP
C36_ConflictCheckScopedToSubnet ==
    [][\A w \in Workers :
        Checks(w)
        => /\ ( /\ req[w].sid # None
                /\ \A e \in Stored(cfg, req[w].sid) :
                     e.ip # req[w].ip /\ Lower(e.mac) # Lower(req[w].mac) )
              => pc'[w] = "checked"
           /\ ( req[w].sid # None /\ pc'[w] = "done" )
              => \A x \in Range(resp'[w].res) : x.sid = req[w].sid
           /\ ( /\ req[w].sid = None
                /\ <<"config-get", "ok">> \in sent'[w]
                /\ \E e \in Stored(cfg, None) : e.ip = req[w].ip )
              => IF \A e \in Stored(cfg, None) :
                       e.ip = req[w].ip => Lower(e.mac) = Lower(req[w].mac)
                 THEN pc'[w] = "done" /\ resp'[w].status = 200
                 ELSE IF \A e \in Stored(cfg, None) :
                            e.ip = req[w].ip => Lower(e.mac) # Lower(req[w].mac)
                 THEN req[w].force \/ (pc'[w] = "done" /\ resp'[w].status = 409)
                 ELSE TRUE]_vars

C36_Witness ==
    \E w \in Workers :
        /\ pc[w] = "checked" /\ Creating(w) /\ ~req[w].force
        /\ req[w].sid # None
        /\ <<"config-get", "ok">> \in sent[w]
        /\ \E e \in Stored(cfg, None) :
              e.sid # req[w].sid /\ e.ip = req[w].ip /\ e.mac # req[w].mac
        /\ \E e \in Stored(cfg, None) :
              e.sid # req[w].sid /\ e.ip # req[w].ip /\ e.mac = req[w].mac

\* C37: a session token made by a login or a setup in one worker, whose
\* expiry has not passed and for which no logout has been answered, is
\* accepted by check_auth whichever worker serves the request that carries it:
\* the handler runs
C37_SessionAcceptedByEveryWorker ==
    [][\A w \in Workers, path \in Paths, h \in Headers :
          ( /\ Handle(w, path, h)
            /\ h.scheme = "Bearer"
            /\ LiveSession(auth, h.token) )
          => auth'.last.ran /\ auth'.last.status = 200]_vars

\* worker w writes config.yaml in this step and answers its save request 200
Saves(w) ==
    /\ call[w].at = "read" /\ call'[w].at = "idle"
    /\ auth'.last.op = "save_config" /\ auth'.last.status = 200

\* C38: a successful save of the configuration leaves the credentials as they
\* were: the password_hash of config.yaml after the write is the one it held
\* before the write, and so is the api_token when the file held one, whatever
\* 'app' section the request carries, and the file has no auth_token
C38_SaveKeepsCredentials ==
    [][\A w \in Workers :
          Saves(w) => /\ auth.api_token # NoToken => auth'.api_token = auth.api_token
                      /\ auth'.password_hash = auth.password_hash
                      /\ auth'.auth_token = NoToken]_vars

\* the reservations of rs a delete of ip leaves in a subnet with this id, when
\* the request names subnet sid: all of them in a subnet the request is not
\* about, otherwise those of another IP, in their order
KeptBy(rs, id, ip, sid) ==
    LET Keep(r) == r.ip # ip \/ (sid # None /\ id # sid)
    IN  SelectSeq(rs, Keep)

\* C39: the configuration a config-rewrite delete writes is the one it read
\* with the reservations of the requested IP taken out and nothing else
\* changed: the same subnets in the same order, in each of them every
\* reservation of another IP, and, when a subnet id is given, every
\* reservation of the other subnets, that IP's included; a config-set that
\* succeeds stores exactly that configuration
C39_DeleteRemovesOnlyThatIp ==
    [][\A w \in Workers :
        /\ ( pc[w] = "del_get" /\ pc'[w] = "del_set" )
           => /\ Len(snap'[w]) = Len(cfg)
              /\ \A i \in 1..Len(cfg) :
                    /\ snap'[w][i].id = cfg[i].id
                    /\ snap'[w][i].reservations =
                          KeptBy(cfg[i].reservations, cfg[i].id, req[w].ip, req[w].sid)
        /\ ( pc[w] = "del_set" /\ pc'[w] = "done" /\ resp'[w].status = 200 )
           => cfg' = snap[w]]_vars

C39_Witness ==
    \E w \in Workers :
        /\ pc[w] = "done" /\ Deleting(w) /\ req[w].sid # None
        /\ <<"config-set", "ok">> \in sent[w]
        /\ resp[w].status = 200
        /\ \E e \in Stored(cfg, None) : e.ip = req[w].ip /\ e.sid # req[w].sid
        /\ \E e \in Stored(cfg, req[w].sid) : e.ip # req[w].ip
====
